---- MODULE Spec2Model ----
(***************************************************************************)
(* A model of the fortepyan MIDI codec (src/fortepyan/midi): the sustain   *)
(* projector of tools.py, the tick/time mapper, the note-table Piece and   *)
(* the event stream decoder and encoder of structures.py.                  *)
(*                                                                         *)
(* Times are exact numbers, not floats.  Every time of the sustain and    *)
(* piece models is an integer count of half seconds.  Every time of the   *)
(* mapper and codec models is an integer count of 1 / (10^6 * resolution) *)
(* seconds, so that a tick scale (seconds per tick) is the tempo in        *)
(* microseconds per quarter note: tempo / (10^6 * resolution) seconds.    *)
(* The models of MidiPiece construction and slicing round, as floats do,  *)
(* with a short significand (the times of the other models are small      *)
(* enough to be exact in it).                                              *)
(***************************************************************************)
EXTENDS Integers, Sequences, FiniteSets, TLC

VARIABLES
    \* ---- sustain projector (tools.py) ----
    df,               \* the note table object handed to apply_sustain
    df0,              \* the rows of df when it was handed over (history)
    sustain,          \* the sustain sample table: rows [time, value]
    sus_results,      \* the rows returned by each apply_sustain call so far
    \* ---- tick/time mapper of a MidiFile (structures.py) ----
    resolution,       \* ticks per quarter note of the file
    tempo_events,     \* the set_tempo events of track 0: rows [time, tempo]
    tick_scales,      \* _tick_scales: <<tick, tick scale>> pairs
    tick_table,       \* __tick_to_time: tick_table[tick + 1] is the time of tick
    map_ret,          \* what the last mapper call returned or raised
    \* ---- MidiPiece (structures.py) ----
    piece,            \* the receiver: [df: rows, source: [start, finish, start_time]]
    piece_call,       \* the last call on the receiver, with what it returned or raised
    frame,            \* the DataFrame handed to MidiPiece(df): [columns, rows]
    \* ---- MidiFile.merge_files ----
    files,            \* the MidiFile objects handed to merge_files
    merged,           \* the last merge_files call, with the File it returned
    \* ---- decoding and encoding an event stream (structures.py) ----
    midi_data,        \* the event stream: [ticks_per_beat, tracks], absolute ticks
    midi_file,        \* the MidiFile decoded from midi_data, or what decoding raised
    written,          \* the event stream MidiFile.write produced
    reloaded,         \* the MidiFile decoded from the written stream
    \* ---- which part of the program a behaviour exercises ----
    part

susVars == <<df, df0, sustain, sus_results>>
mapVars == <<resolution, tempo_events, tick_scales, tick_table, map_ret>>
pieceVars == <<piece, piece_call, frame>>
mergeVars == <<files, merged>>
codecVars == <<midi_data, midi_file, written, reloaded>>
vars == <<df, df0, sustain, sus_results,
          resolution, tempo_events, tick_scales, tick_table, map_ret,
          piece, piece_call, frame, files, merged,
          midi_data, midi_file, written, reloaded, part>>

\* what the actions of one part of the program leave alone
otherThanSustain == <<part, mapVars, pieceVars, mergeVars, codecVars>>
otherThanMapper == <<part, susVars, pieceVars, mergeVars, codecVars>>
otherThanPiece == <<part, susVars, mapVars, mergeVars, codecVars>>
otherThanMerge == <<part, susVars, mapVars, pieceVars, codecVars>>
otherThanCodec == <<part, susVars, mapVars, pieceVars, mergeVars>>

\* no value (a field not set yet, a call that has returned nothing)
Null == [none |-> TRUE]

\* the parts of the program a behaviour does not exercise stay as constructed
SustainIdle == df = <<>> /\ df0 = <<>> /\ sustain = <<>> /\ sus_results = <<>>

MapperIdle ==
    /\ resolution = 0 /\ tempo_events = <<>> /\ tick_scales = <<>>
    /\ tick_table = <<>> /\ map_ret = Null

PieceIdle == piece = Null /\ piece_call = Null /\ frame = Null

MergeIdle == files = <<>> /\ merged = Null

CodecIdle == midi_data = Null /\ midi_file = Null /\ written = Null /\ reloaded = Null

IdleBut(name) ==
    /\ name = "sustain" \/ SustainIdle
    /\ name = "mapper" \/ MapperIdle
    /\ name \in {"piece", "construct", "add", "chain"} \/ PieceIdle
    /\ name = "merge" \/ MergeIdle
    /\ name \in {"codec", "load", "write", "meta"} \/ CodecIdle

----------------------------------------------------------------------------
(* Bounds of the model *)

\* largest time (half seconds) of a drawn note
MaxTime == 2
\* largest time (half seconds) of a drawn sustain sample: a pedal can be
\* released after the last note has ended
MaxSampleTime == 3
\* most rows of a drawn note table
MaxNotes == 2
\* most rows drawn in all (notes and sustain samples together)
MaxItems == 6

Pitches == {60, 62}
SustainValues == {0, 64}

----------------------------------------------------------------------------
(* Helpers *)

Min2(a, b) == IF a <= b THEN a ELSE b
Max2(a, b) == IF a >= b THEN a ELSE b
SetMin(S) == CHOOSE x \in S : \A y \in S : x <= y
SetMax(S) == CHOOSE x \in S : \A y \in S : x >= y

----------------------------------------------------------------------------
(* tools.py: the sustain projector *)

\* sustain_threshold default of apply_sustain
DefaultSustainThreshold == 64

\* tools.py:41  sustain["is_down"] = sustain.value >= sustain_threshold
is_down(sample, sustain_threshold) == sample.value >= sustain_threshold

\* tools.py:44-52  the groups of consecutive is_down samples, in table order,
\* each as <<pedal_down, pedal_up>> = <<min time, max time>> of its samples.
\* cur is the group being collected (<<>> when the previous sample was up).
RECURSIVE down_groups(_, _, _, _)
down_groups(sus, sustain_threshold, i, cur) ==
    IF i > Len(sus)
    THEN (IF cur = <<>> THEN <<>> ELSE <<cur>>)
    ELSE IF is_down(sus[i], sustain_threshold)
         THEN down_groups(sus, sustain_threshold, i + 1,
                  IF cur = <<>> THEN <<sus[i].time, sus[i].time>>
                  ELSE <<Min2(cur[1], sus[i].time), Max2(cur[2], sus[i].time)>>)
         ELSE (IF cur = <<>> THEN <<>> ELSE <<cur>>)
              \o down_groups(sus, sustain_threshold, i + 1, <<>>)

\* tools.py:99  ids = (df.end >= pedal_down) & (df.end < pedal_up)
affected(row, pedal_down, pedal_up) == row.end >= pedal_down /\ row.end < pedal_up

\* a variant of sustained_end: a held note is lengthened by a step instead of
\* being held to pedal_up (additive, not saturating)
sustained_end_additive(rows, row, pedal_up) ==
    LET jds == {j \in 1..Len(rows) :
                    rows[j].pitch = row.pitch /\ rows[j].start > row.start}
    IN  IF jds # {}
        THEN Min2(SetMin({rows[j].start : j \in jds}), pedal_up)
        ELSE row.end + 1

\* a variant of sustained_end: a held note is held to pedal_up whether or not
\* a later note of its pitch starts before
sustained_end_to_release(rows, row, pedal_up) == Max2(row.end, pedal_up)

\* tools.py:105-114  the new end of one affected row
sustained_end(rows, row, pedal_up) ==
    LET jds == {j \in 1..Len(rows) :
                    rows[j].pitch = row.pitch /\ rows[j].start > row.start}
    IN  IF jds # {}
        THEN Min2(SetMin({rows[j].start : j \in jds}), pedal_up)
        ELSE Max2(row.end, pedal_up)

\* tools.py:96-120  sustain_notes: every end is computed from the table as it
\* is on entry, then written with df.loc[ids, "end"] = end_times
sustain_notes(rows, pedal_down, pedal_up) ==
    [i \in 1..Len(rows) |->
        IF affected(rows[i], pedal_down, pedal_up)
        THEN [rows[i] EXCEPT !.end = sustained_end(rows, rows[i], pedal_up)]
        ELSE rows[i]]

\* tools.py:49-63  the loop over the groups
RECURSIVE sustain_groups(_, _, _)
sustain_groups(rows, groups, g) ==
    IF g > Len(groups) THEN rows
    ELSE sustain_groups(sustain_notes(rows, groups[g][1], groups[g][2]), groups, g + 1)

\* tools.py:66  df["duration"] = df.end - df.start
with_duration(rows) ==
    [i \in 1..Len(rows) |->
        [pitch |-> rows[i].pitch, velocity |-> rows[i].velocity,
         start |-> rows[i].start, end |-> rows[i].end,
         duration |-> rows[i].end - rows[i].start]]

\* tools.py:5-68  apply_sustain, as a function of the rows it is given
apply_sustain(rows, sus, sustain_threshold) ==
    with_duration(sustain_groups(rows, down_groups(sus, sustain_threshold, 1, <<>>), 1))

\* a row of a decoded note table (structures.py:522-529: no duration column)
NoteRow(p, v, s, e) == [pitch |-> p, velocity |-> v, start |-> s, end |-> e]

\* the two-note scenario of the specification, in half seconds
ScenarioNotes == <<NoteRow(60, 80, 0, 2), NoteRow(60, 80, 4, 6)>>
ScenarioSustain == <<[time |-> 1, value |-> 100], [time |-> 5, value |-> 0]>>

InitSustain ==
    /\ part = "sustain"
    /\ IdleBut("sustain")
    /\ sus_results = <<>>
    /\ \/ df = <<>> /\ sustain = <<>>
       \/ df = ScenarioNotes /\ sustain = ScenarioSustain
    /\ df0 = df

\* a caller builds the note table, one row at a time
AddNote ==
    /\ part = "sustain"
    /\ sus_results = <<>>
    /\ Len(df) < MaxNotes
    /\ Len(df) + Len(sustain) < MaxItems
    /\ \E p \in Pitches, s \in 0..MaxTime, e \in 0..MaxTime :
          /\ s <= e
          /\ df' = Append(df, NoteRow(p, 80, s, e))
    /\ df0' = df'
    /\ UNCHANGED <<sustain, sus_results, otherThanSustain>>

\* a caller builds the sustain table, one sample at a time
AddSample ==
    /\ part = "sustain"
    /\ sus_results = <<>>
    /\ Len(df) + Len(sustain) < MaxItems
    /\ \E t \in 0..MaxSampleTime, v \in SustainValues :
          sustain' = Append(sustain, [time |-> t, value |-> v])
    /\ UNCHANGED <<df, df0, sus_results, otherThanSustain>>

\* df = apply_sustain(df, sustain, sustain_threshold): the table handed over
\* is written in place and is the table returned
ApplySustain ==
    /\ part = "sustain"
    /\ Len(sus_results) < 2
    /\ df' = apply_sustain(df, sustain, DefaultSustainThreshold)
    /\ sus_results' = Append(sus_results, df')
    /\ UNCHANGED <<df0, sustain, otherThanSustain>>

NextSustain == AddNote \/ AddSample \/ ApplySustain

SpecSustain == InitSustain /\ [][NextSustain]_vars

----------------------------------------------------------------------------
(* structures.py: the tick/time mapper of a MidiFile *)

\* structures.py:17  MAX_TICK = 1e10, scaled down to the model's integers:
\* every tick the model draws is far below it, except the ticks drawn to
\* reach the ceiling
MAX_TICK == 1000

\* structures.py:586  the default tempo, 120 quarter notes per minute, in
\* microseconds per quarter note (6e7 / 120)
DefaultTempo == 500000

\* structures.py:595-596, 600  60.0 / ((6e7 / event.tempo) * resolution) seconds
\* per tick: event.tempo / (10^6 * resolution) seconds, which is event.tempo
\* units of 1 / (10^6 * resolution) seconds
tick_scale_of(tempo) == tempo

\* a variant of load_tempo_changes: a set_tempo at tick 0 is appended like any
\* other instead of replacing the default
RECURSIVE load_tempo_changes_append(_, _, _)
load_tempo_changes_append(events, i, scales) ==
    IF i > Len(events) THEN scales
    ELSE LET event == events[i]
             last_tick_scale == scales[Len(scales)][2]
             tick_scale == tick_scale_of(event.tempo)
         IN  IF tick_scale # last_tick_scale
             THEN load_tempo_changes_append(events, i + 1,
                                            Append(scales, <<event.time, tick_scale>>))
             ELSE load_tempo_changes_append(events, i + 1, scales)

\* a variant of load_tempo_changes: a set_tempo after tick 0 is appended even
\* when it repeats the tempo before it
RECURSIVE load_tempo_changes_keep_repeats(_, _, _)
load_tempo_changes_keep_repeats(events, i, scales) ==
    IF i > Len(events) THEN scales
    ELSE LET event == events[i]
             tick_scale == tick_scale_of(event.tempo)
         IN  IF event.time = 0
             THEN load_tempo_changes_keep_repeats(events, i + 1, <<<<0, tick_scale>>>>)
             ELSE load_tempo_changes_keep_repeats(events, i + 1,
                                          Append(scales, <<event.time, tick_scale>>))

\* structures.py:586-603  _load_tempo_changes over the set_tempo events of
\* track 0, in track order
RECURSIVE load_tempo_changes(_, _, _)
load_tempo_changes(events, i, scales) ==
    IF i > Len(events) THEN scales
    ELSE LET event == events[i]
             last_tick_scale == scales[Len(scales)][2]
             tick_scale == tick_scale_of(event.tempo)
         IN  IF event.time = 0
             THEN load_tempo_changes(events, i + 1, <<<<0, tick_scale>>>>)
             ELSE IF tick_scale # last_tick_scale
                  THEN load_tempo_changes(events, i + 1,
                                          Append(scales, <<event.time, tick_scale>>))
                  ELSE load_tempo_changes(events, i + 1, scales)

\* structures.py:586  the list _load_tempo_changes starts from
InitialTickScales == <<<<0, tick_scale_of(DefaultTempo)>>>>

\* structures.py:670-675  the loop over the intervals between tempo changes:
\* returns <<table, last_end_time>>
RECURSIVE fill_intervals(_, _, _, _)
fill_intervals(scales, k, table, last_end_time) ==
    IF k >= Len(scales) THEN <<table, last_end_time>>
    ELSE LET start_tick == scales[k][1]
             tick_scale == scales[k][2]
             end_tick == scales[k + 1][1]
             filled == [i \in 1..Len(table) |->
                          IF i - 1 >= start_tick /\ i - 1 <= end_tick
                          THEN last_end_time + tick_scale * (i - 1 - start_tick)
                          ELSE table[i]]
         IN  fill_intervals(scales, k + 1, filled, filled[end_tick + 1])

\* a variant of update_tick_to_time: the final interval starts again from time
\* 0 instead of from the end time of the interval before it
update_tick_to_time_restart(scales, max_tick_arg) ==
    LET max_scale_tick == SetMax({scales[k][1] : k \in 1..Len(scales)})
        max_tick == IF max_tick_arg > max_scale_tick THEN max_tick_arg
                    ELSE max_scale_tick
        zeros == [i \in 1..(max_tick + 1) |-> 0]
        done == fill_intervals(scales, 1, zeros, 0)
        start_tick == scales[Len(scales)][1]
        tick_scale == scales[Len(scales)][2]
    IN  [i \in 1..(max_tick + 1) |->
            IF i - 1 >= start_tick
            THEN tick_scale * (i - 1 - start_tick)
            ELSE done[1][i]]

\* structures.py:656-680  _update_tick_to_time: the new table
update_tick_to_time(scales, max_tick_arg) ==
    LET max_scale_tick == SetMax({scales[k][1] : k \in 1..Len(scales)})
        max_tick == IF max_tick_arg > max_scale_tick THEN max_tick_arg
                    ELSE max_scale_tick
        zeros == [i \in 1..(max_tick + 1) |-> 0]
        done == fill_intervals(scales, 1, zeros, 0)
        start_tick == scales[Len(scales)][1]
        tick_scale == scales[Len(scales)][2]
    IN  [i \in 1..(max_tick + 1) |->
            IF i - 1 >= start_tick
            THEN done[2] + tick_scale * (i - 1 - start_tick)
            ELSE done[1][i]]

\* structures.py:832-836  the table after tick_to_time(tick)
table_after_tick_to_time(scales, table, tick) ==
    IF tick >= Len(table) THEN update_tick_to_time(scales, tick) ELSE table

\* largest tick of a drawn event
MaxTick == 4
\* most set_tempo events drawn on track 0
MaxTempoEvents == 3
\* largest tick asked of tick_to_time, besides the ceiling
MaxQueryTick == 6

Tempos == {250000, 500000, 1000000}

\* a variant of tick_too_large with the comparison of the decoder
tick_too_large_strict(tick) == tick > MAX_TICK

\* structures.py:832  tick_to_time refuses the tick
tick_too_large(tick) == tick >= MAX_TICK

\* structures.py:486  _process_midi_file refuses the file; max_tick is what
\* get_max_tick returns, the largest tick of the file plus one
max_tick_too_large(max_tick) == max_tick > MAX_TICK

\* ticks next to the ceiling, drawn for files without set_tempo events
CeilingTicks ==
    IF tempo_events = <<>> THEN {MAX_TICK - 2, MAX_TICK - 1, MAX_TICK} ELSE {}

\* the last tick of the set_tempo events drawn so far
LastTempoTick ==
    IF tempo_events = <<>> THEN 0 ELSE tempo_events[Len(tempo_events)].time

\* a MIDI file is read: either any file (of 4 ticks per quarter note), or the
\* file of the specification's scenario: resolution 480 and one set_tempo of
\* 500000 microseconds per quarter note at tick 0
InitMapper ==
    /\ IdleBut("mapper")
    /\ tick_scales = <<>> /\ tick_table = <<>> /\ map_ret = Null
    /\ \/ part = "mapper" /\ resolution = 4 /\ tempo_events = <<>>
       \/ /\ part = "mapper_scenario" /\ resolution = 480
          /\ tempo_events = <<[time |-> 0, tempo |-> 500000]>>

\* track 0 of the file holds one more set_tempo event (absolute ticks never
\* decrease along a track: structures.py:470-474)
AddTempoEvent ==
    /\ part = "mapper"
    /\ tick_scales = <<>>
    /\ Len(tempo_events) < MaxTempoEvents
    /\ \E t \in LastTempoTick..MaxTick, tempo \in Tempos :
          tempo_events' = Append(tempo_events, [time |-> t, tempo |-> tempo])
    /\ UNCHANGED <<resolution, tick_scales, tick_table, map_ret, otherThanMapper>>

\* structures.py:480-490  _process_midi_file up to the tick table; last_tick
\* is the largest absolute tick of any event of the file
LoadTempoAndTable ==
    /\ part \in {"mapper", "mapper_scenario"}
    /\ tick_scales = <<>>
    /\ \E last_tick \in (LastTempoTick..MaxTick) \cup CeilingTicks :
          LET scales == load_tempo_changes(tempo_events, 1, InitialTickScales)
              max_tick == last_tick + 1
          IN  IF max_tick_too_large(max_tick)
              THEN /\ map_ret' = [op |-> "decode", tick |-> last_tick,
                                  raised |-> "ValueError"]
                   /\ tick_scales' = scales
                   /\ UNCHANGED tick_table
              ELSE /\ map_ret' = [op |-> "decode", tick |-> last_tick,
                                  raised |-> "none"]
                   /\ tick_scales' = scales
                   /\ tick_table' = update_tick_to_time(scales, max_tick)
    /\ UNCHANGED <<resolution, tempo_events, otherThanMapper>>

\* structures.py:817-841  tick_to_time(tick)
TickToTime ==
    /\ part \in {"mapper", "mapper_scenario"}
    /\ tick_table # <<>>
    /\ \E tick \in (0..MaxQueryTick) \cup {resolution} \cup (CeilingTicks \cup {MAX_TICK}) :
          IF tick_too_large(tick)
          THEN /\ map_ret' = [op |-> "tick_to_time", tick |-> tick,
                              raised |-> "IndexError"]
               /\ UNCHANGED tick_table
          ELSE /\ tick_table' = table_after_tick_to_time(tick_scales, tick_table, tick)
               /\ map_ret' = [op |-> "tick_to_time", tick |-> tick,
                              raised |-> "none", value |-> tick_table'[tick + 1]]
    /\ UNCHANGED <<resolution, tempo_events, tick_scales, otherThanMapper>>

\* round(x / y) of Python for x >= 0, y > 0: to the nearest, a half to even
RoundDiv(x, y) ==
    LET q == x \div y
        r == x % y
    IN  IF 2 * r < y THEN q
        ELSE IF 2 * r > y THEN q + 1
        ELSE IF q % 2 = 0 THEN q ELSE q + 1

Abs(x) == IF x < 0 THEN -x ELSE x

\* a variant of time_to_tick: within coverage the first tick at or after the
\* time is returned, also when the tick before it is closer
time_to_tick_left(f, time) ==
    LET table == f.tick_to_time
        tick == Cardinality({i \in 1..Len(table) : table[i] < time})
    IN  IF tick = Len(table)
        THEN LET final_tick_scale == f.tick_scales[Len(f.tick_scales)][2]
             IN  RoundDiv((tick - 1) * final_tick_scale + (time - table[tick]), final_tick_scale)
        ELSE tick

\* structures.py:892-922  time_to_tick
time_to_tick(f, time) ==
    LET table == f.tick_to_time
        \* np.searchsorted(table, time, side="left"): how many entries are < time
        tick == Cardinality({i \in 1..Len(table) : table[i] < time})
    IN  IF tick = Len(table)
        THEN LET final_tick_scale == f.tick_scales[Len(f.tick_scales)][2]
             IN  RoundDiv((tick - 1) * final_tick_scale + (time - table[tick]),
                          final_tick_scale)
        ELSE IF tick # 0 /\ Abs(time - table[tick]) < Abs(time - table[tick + 1])
             THEN tick - 1
             ELSE tick

\* half the smallest seconds-per-tick value of a drawn file: the query times
\* are multiples of it, and one unit more
TimeStep == SetMin(Tempos) \div 2

\* the largest query time, in TimeSteps
MaxTimeSteps == 12

QueryTimes == {TimeStep * k + d : k \in 0..MaxTimeSteps, d \in {0, 1}}

\* structures.py:892-922  a time_to_tick call on the decoded file
TimeToTick ==
    /\ part \in {"mapper", "mapper_scenario"}
    /\ tick_table # <<>>
    /\ \E time \in QueryTimes :
          map_ret' = [op |-> "time_to_tick", time |-> time, raised |-> "none",
                      value |-> time_to_tick([tick_to_time |-> tick_table,
                                              tick_scales |-> tick_scales], time)]
    /\ UNCHANGED <<resolution, tempo_events, tick_scales, tick_table, otherThanMapper>>

NextMapper == AddTempoEvent \/ LoadTempoAndTable \/ TickToTime \/ TimeToTick

SpecMapper == InitMapper /\ [][NextMapper]_vars

----------------------------------------------------------------------------
(* structures.py: MidiPiece *)

\* structures.py:259  part.start.min() of a table without rows: not a number
NaN == -1000

\* most rows of a drawn piece
MaxPieceNotes == 3

\* The timing columns of a piece are float64 columns, and a shifted or derived
\* column is a float sum or difference.  Floats are modelled with a
\* significand of SignificandBits bits instead of 53, rounding to the nearest,
\* ties to even.
SignificandBits == 3

RECURSIVE Pow2(_)
Pow2(n) == IF n = 0 THEN 1 ELSE 2 * Pow2(n - 1)

\* the spacing of the floats around x >= 0
RECURSIVE ulp(_)
ulp(x) == IF x < Pow2(SignificandBits) THEN 1 ELSE 2 * ulp(x \div 2)

\* the float nearest to the number x
fl(x) ==
    LET a == Abs(x)
        u == ulp(a)
        q == a \div u
        r == a % u
        n == IF 2 * r < u THEN q * u
             ELSE IF 2 * r > u THEN (q + 1) * u
             ELSE IF q % 2 = 0 THEN q * u ELSE (q + 1) * u
    IN  IF x < 0 THEN -n ELSE n

\* float addition and subtraction of two column values
fadd(a, b) == fl(a + b)
fsub(a, b) == fl(a - b)

\* arithmetic on times that may be NaN
TimePlus(a, b) == IF a = NaN \/ b = NaN THEN NaN ELSE a + b

\* the float sum of two times that may be NaN
FloatPlus(a, b) == IF a = NaN \/ b = NaN THEN NaN ELSE fadd(a, b)

\* one row of a piece's table; the duration column agrees with start and end
\* (structures.py:55-60 derive the missing one of the three)
PieceRow(p, v, s, e) ==
    [pitch |-> p, velocity |-> v, start |-> s, end |-> e, duration |-> e - s]

\* structures.py:72-77  the source a piece is constructed with
DefaultSource(rows) == [start |-> 0, start_time |-> 0, finish |-> Len(rows)]

\* structures.py:213-219  __sanitize_get_index: a start or stop that is None or
\* 0 is "not" given
sanitize_start(a) == IF a = 0 THEN 0 ELSE a
sanitize_stop(p, b) == IF b = 0 THEN Len(p.df) ELSE b

\* structures.py:255  self.df[index].reset_index(drop=True) for a slice of
\* bounds 0 <= start, 0 <= stop: a new table of the rows start .. stop - 1
\* (0-based) that exist
rows_of_slice(rows, start, stop) == SubSeq(rows, start + 1, Min2(stop, Len(rows)))

\* a variant of getitem: the source of the new piece counts from the rows of
\* the receiver, not from the start its source records
getitem_local_source(p, a, b, shift_time) ==
    LET start == sanitize_start(a)
        stop == sanitize_stop(p, b)
        part_rows == rows_of_slice(p.df, start, stop)
        first_sound == IF part_rows = <<>> THEN NaN
                       ELSE SetMin({part_rows[i].start : i \in 1..Len(part_rows)})
        shifted == [i \in 1..Len(part_rows) |->
                       [part_rows[i] EXCEPT !.start = fsub(@, first_sound),
                                            !.end = fsub(@, first_sound)]]
        start_time_adjustment == IF shift_time THEN first_sound ELSE 0
    IN  [df |-> IF shift_time THEN shifted ELSE part_rows,
         source |-> [start |-> start,
                     finish |-> stop,
                     start_time |-> FloatPlus(p.source.start_time,
                                              start_time_adjustment)]]

\* structures.py:223-275  __getitem__(slice(a, b), shift_time): the new piece
getitem(p, a, b, shift_time) ==
    LET start == sanitize_start(a)
        stop == sanitize_stop(p, b)
        part_rows == rows_of_slice(p.df, start, stop)
        first_sound == IF part_rows = <<>> THEN NaN
                       ELSE SetMin({part_rows[i].start : i \in 1..Len(part_rows)})
        shifted == [i \in 1..Len(part_rows) |->
                       [part_rows[i] EXCEPT !.start = fsub(@, first_sound),
                                            !.end = fsub(@, first_sound)]]
        start_time_adjustment == IF shift_time THEN first_sound ELSE 0
    IN  [df |-> IF shift_time THEN shifted ELSE part_rows,
         source |-> [start |-> p.source.start + start,
                     finish |-> p.source.start + stop,
                     start_time |-> FloatPlus(p.source.start_time,
                                              start_time_adjustment)]]

\* a variant of trim_ids that selects by start alone for every slice_type
trim_ids_by_start(p, start, finish, slice_type) ==
    {i \in 1..Len(p.df) : p.df[i].start >= start /\ p.df[i].start <= finish}

\* structures.py:165, 167  the rows a time range selects (1-based positions)
trim_ids(p, start, finish, slice_type) ==
    IF slice_type = "by_end"
    THEN {i \in 1..Len(p.df) : p.df[i].start >= start /\ p.df[i].end <= finish}
    ELSE {i \in 1..Len(p.df) : p.df[i].start >= start /\ p.df[i].start <= finish}

\* structures.py:154-181  trim: [raised, out]
trim(p, start, finish, shift_time, slice_type) ==
    IF slice_type = "index"
    THEN IF start < 0 \/ finish >= Len(p.df)
         THEN [raised |-> "IndexError", out |-> Null]
         ELSE IF start > finish
              THEN [raised |-> "ValueError", out |-> Null]
              ELSE [raised |-> "none",
                    out |-> getitem(p, start, finish + 1, shift_time)]
    ELSE IF slice_type \notin {"by_end", "standard"}
         THEN [raised |-> "NotImplementedError", out |-> Null]
         ELSE LET idx == trim_ids(p, start, finish, slice_type)
              IN  IF idx = {}
                  THEN [raised |-> "IndexError", out |-> Null]
                  ELSE [raised |-> "none",
                        out |-> getitem(p, SetMin(idx) - 1, SetMax(idx), shift_time)]

\* structures.py:444-464  MidiFile(): no instrument, no meta event; the one
\* tick scale entry, at tick 0, is the one tempo change
EmptyFile == [instruments |-> <<>>, meta_times |-> {}, tempo_change_times |-> {0}]

\* containers.py:17-22  Instrument(program): no note, no control change
EmptyInstrument == [notes |-> <<>>, control_changes |-> <<>>]

\* a variant of Note: a note that ends when it starts is refused too
Note_positive(velocity, pitch, start, end) ==
    IF end <= start
    THEN [raised |-> "ValueError", note |-> Null]
    ELSE [raised |-> "none",
          note |-> [pitch |-> pitch, velocity |-> velocity, start |-> start, end |-> end]]

\* containers.py:57-64  Note.__init__
Note(velocity, pitch, start, end) ==
    IF end < start
    THEN [raised |-> "ValueError", note |-> Null]
    ELSE [raised |-> "none",
          note |-> [pitch |-> pitch, velocity |-> velocity, start |-> start, end |-> end]]

\* structures.py:372-375  the loop over the rows, from row i on: the notes
\* appended to the instrument, or the error of the first Note that raises
RECURSIVE to_midi_notes(_, _, _)
to_midi_notes(rows, i, notes) ==
    IF i > Len(rows) THEN [raised |-> "none", notes |-> notes]
    ELSE LET r == Note(rows[i].velocity, rows[i].pitch, rows[i].start, rows[i].end)
         IN  IF r.raised # "none"
             THEN [raised |-> r.raised, notes |-> notes]
             ELSE to_midi_notes(rows, i + 1, Append(notes, r.note))

\* structures.py:346-379  MidiPiece.to_midi: a MidiFile() with one instrument
\* holding a Note per row
to_midi(p) ==
    LET r == to_midi_notes(p.df, 1, <<>>)
    IN  IF r.raised # "none"
        THEN [raised |-> r.raised, out |-> Null]
        ELSE [raised |-> "none",
              out |-> [EmptyFile EXCEPT
                          !.instruments = <<[EmptyInstrument EXCEPT !.notes = r.notes]>>]]

SliceTypes == {"standard", "by_end", "index", "invalid"}

\* a piece is constructed from a note table (MidiPiece(df)), here without rows
InitPiece ==
    /\ part = "piece"
    /\ IdleBut("piece")
    /\ piece = [df |-> <<>>, source |-> DefaultSource(<<>>)]
    /\ piece_call = Null /\ frame = Null

\* the table the piece is constructed from holds one more row; the rows are in
\* any order and a row may end before it starts (nothing checks it)
AddPieceRow ==
    /\ part \in {"piece", "add"}
    /\ piece_call = Null
    /\ Len(piece.df) < MaxPieceNotes
    /\ \E s \in 0..MaxTime, e \in 0..MaxTime :
          LET rows == Append(piece.df, PieceRow(60 + Len(piece.df), 80, s, e))
          IN  piece' = [df |-> rows, source |-> DefaultSource(rows)]
    /\ UNCHANGED <<piece_call, frame, otherThanPiece>>

\* piece.trim(start, finish, shift_time, slice_type); a call leaves the
\* receiver as it was, so one call per behaviour shows every call
Trim ==
    /\ part = "piece"
    /\ piece_call = Null
    /\ \E start \in (-1)..(MaxTime + 1), finish \in (-1)..(MaxTime + 1),
          shift_time \in BOOLEAN, slice_type \in SliceTypes :
          LET r == trim(piece, start, finish, shift_time, slice_type)
          IN  piece_call' = [op |-> "trim", start |-> start, finish |-> finish,
                             shift_time |-> shift_time, slice_type |-> slice_type,
                             raised |-> r.raised, out |-> r.out]
    /\ UNCHANGED <<piece, frame, otherThanPiece>>

\* piece[a:b], with shift_time as given (True by default)
GetItem ==
    /\ part = "piece"
    /\ piece_call = Null
    /\ \E a \in 0..MaxPieceNotes, b \in 0..MaxPieceNotes, shift_time \in BOOLEAN :
          piece_call' = [op |-> "getitem", start |-> a, finish |-> b,
                         shift_time |-> shift_time, slice_type |-> "slice",
                         raised |-> "none",
                         out |-> getitem(piece, a, b, shift_time)]
    /\ UNCHANGED <<piece, frame, otherThanPiece>>

\* piece.to_midi()
ToMidi ==
    /\ part = "piece"
    /\ piece_call = Null
    /\ LET r == to_midi(piece)
       IN  piece_call' = [op |-> "to_midi", raised |-> r.raised, out |-> r.out]
    /\ UNCHANGED <<piece, frame, otherThanPiece>>

NextPiece == AddPieceRow \/ Trim \/ GetItem \/ ToMidi

SpecPiece == InitPiece /\ [][NextPiece]_vars

----------------------------------------------------------------------------
(* structures.py:277-344  MidiPiece.__add__, duration, end *)

\* a column's max() and min(): NaN values are skipped, and the max or min of
\* nothing is NaN
ColMax(values) ==
    LET S == {values[i] : i \in 1..Len(values)} \ {NaN}
    IN  IF S = {} THEN NaN ELSE SetMax(S)

ColMin(values) ==
    LET S == {values[i] : i \in 1..Len(values)} \ {NaN}
    IN  IF S = {} THEN NaN ELSE SetMin(S)

TimeMinus(a, b) == IF a = NaN \/ b = NaN THEN NaN ELSE a - b

\* structures.py:331-334  MidiPiece.duration
piece_duration(rows) ==
    TimeMinus(ColMax([i \in 1..Len(rows) |-> rows[i].end]),
              ColMin([i \in 1..Len(rows) |-> rows[i].start]))

\* structures.py:336-344  MidiPiece.end: the max of start + duration
piece_end(rows) ==
    ColMax([i \in 1..Len(rows) |-> TimePlus(rows[i].start, rows[i].duration)])

\* other.df.start += offset, other.df.end += offset
shift_start(rows, offset) ==
    [i \in 1..Len(rows) |-> [rows[i] EXCEPT !.start = TimePlus(@, offset)]]
shift_end(rows, offset) ==
    [i \in 1..Len(rows) |-> [rows[i] EXCEPT !.end = TimePlus(@, offset)]]

\* other.df.start -= offset, other.df.end -= offset
unshift_start(rows, offset) ==
    [i \in 1..Len(rows) |-> [rows[i] EXCEPT !.start = TimeMinus(@, offset)]]
unshift_end(rows, offset) ==
    [i \in 1..Len(rows) |-> [rows[i] EXCEPT !.end = TimeMinus(@, offset)]]

\* a variant of add: the notes of the other piece are not moved
add_unshifted(self_rows, other_rows, same) ==
    LET joined == self_rows \o (IF same THEN self_rows ELSE other_rows)
    IN  [raised |-> "none",
         out |-> [df |-> joined, source |-> DefaultSource(joined)],
         self_after |-> self_rows,
         other_after |-> IF same THEN self_rows ELSE other_rows]

\* structures.py:306-326  self + other for a MidiPiece other; `same` says that
\* other is the object self, whose table every statement then writes and
\* self.end reads.  s_k and o_k are the tables of self and of other after the
\* k-th statement.
add(self_rows, other_rows, same) ==
    LET o0 == IF same THEN self_rows ELSE other_rows
        o1 == shift_start(o0, piece_end(self_rows))
        s1 == IF same THEN o1 ELSE self_rows
        o2 == shift_end(o1, piece_end(s1))
        s2 == IF same THEN o2 ELSE self_rows
        joined == s2 \o o2
        o3 == unshift_start(o2, piece_end(s2))
        s3 == IF same THEN o3 ELSE self_rows
        o4 == unshift_end(o3, piece_end(s3))
        s4 == IF same THEN o4 ELSE self_rows
    IN  [raised |-> "none",
         out |-> [df |-> joined, source |-> DefaultSource(joined)],
         self_after |-> s4,
         other_after |-> o4]

\* most rows of the right operand
MaxOtherNotes == 2

\* the pieces drawn as right operand
OtherRows ==
    UNION {[1..n -> {PieceRow(72, 80, s, e) : s \in 0..MaxTime, e \in 0..MaxTime}] :
              n \in 0..MaxOtherNotes}

InitAdd ==
    /\ part = "add"
    /\ IdleBut("add")
    /\ piece = [df |-> <<>>, source |-> DefaultSource(<<>>)]
    /\ piece_call = Null /\ frame = Null

\* piece + other, for another piece
AddOther ==
    /\ part = "add"
    /\ piece_call = Null
    /\ \E other_rows \in OtherRows :
          LET r == add(piece.df, other_rows, FALSE)
          IN  /\ piece_call' = [op |-> "add", operand |-> "other",
                                self_before |-> piece.df, other_before |-> other_rows,
                                other_after |-> r.other_after,
                                raised |-> r.raised, out |-> r.out]
              /\ piece' = [piece EXCEPT !.df = r.self_after]
    /\ UNCHANGED <<frame, otherThanPiece>>

\* piece + piece
AddSelf ==
    /\ part = "add"
    /\ piece_call = Null
    /\ LET r == add(piece.df, piece.df, TRUE)
       IN  /\ piece_call' = [op |-> "add", operand |-> "self",
                             self_before |-> piece.df, other_before |-> piece.df,
                             other_after |-> r.other_after,
                             raised |-> r.raised, out |-> r.out]
           /\ piece' = [piece EXCEPT !.df = r.self_after]
    /\ UNCHANGED <<frame, otherThanPiece>>

\* structures.py:303-304  piece + something that is no MidiPiece
AddNonPiece ==
    /\ part = "add"
    /\ piece_call = Null
    /\ piece_call' = [op |-> "add", operand |-> "no piece",
                      self_before |-> piece.df, other_before |-> <<>>,
                      other_after |-> <<>>,
                      raised |-> "TypeError", out |-> Null]
    /\ UNCHANGED <<piece, frame, otherThanPiece>>

NextAdd == AddPieceRow \/ AddOther \/ AddSelf \/ AddNonPiece

SpecAdd == InitAdd /\ [][NextAdd]_vars

----------------------------------------------------------------------------
(* structures.py:48-77  MidiPiece.__post_init__ *)

TimingColumns == {"start", "end", "duration"}
AllColumns == TimingColumns \cup {"pitch", "velocity"}

\* a variant of derive_missing: a missing start is end + duration
derive_missing_plus(columns, row) ==
    IF "start" \notin columns
    THEN [c \in columns \cup {"start"} |->
             IF c = "start" THEN fadd(row["end"], row["duration"]) ELSE row[c]]
    ELSE IF "end" \notin columns
    THEN [c \in columns \cup {"end"} |->
             IF c = "end" THEN fadd(row["start"], row["duration"]) ELSE row[c]]
    ELSE IF "duration" \notin columns
    THEN [c \in columns \cup {"duration"} |->
             IF c = "duration" THEN fsub(row["end"], row["start"]) ELSE row[c]]
    ELSE row

\* structures.py:54-60  the missing timing column of one row, when at least
\* two of the three are there
derive_missing(columns, row) ==
    IF "start" \notin columns
    THEN [c \in columns \cup {"start"} |->
             IF c = "start" THEN fsub(row["end"], row["duration"]) ELSE row[c]]
    ELSE IF "end" \notin columns
    THEN [c \in columns \cup {"end"} |->
             IF c = "end" THEN fadd(row["start"], row["duration"]) ELSE row[c]]
    ELSE IF "duration" \notin columns
    THEN [c \in columns \cup {"duration"} |->
             IF c = "duration" THEN fsub(row["end"], row["start"]) ELSE row[c]]
    ELSE row

\* structures.py:48-77  __post_init__ on the table fr = [columns, rows]:
\* what it raises, the table afterwards (self.df is the table handed in, and
\* the derived column is added to it before pitch and velocity are looked
\* for) and the piece
post_init(fr) ==
    IF Cardinality(fr.columns \cap TimingColumns) < 2
    THEN [raised |-> "ValueError", frame |-> fr, out |-> Null]
    ELSE LET rows == [i \in 1..Len(fr.rows) |-> derive_missing(fr.columns, fr.rows[i])]
             after == [columns |-> fr.columns \cup TimingColumns, rows |-> rows]
         IN  IF "pitch" \notin fr.columns \/ "velocity" \notin fr.columns
             THEN [raised |-> "ValueError", frame |-> after, out |-> Null]
             ELSE [raised |-> "none", frame |-> after,
                   out |-> [df |-> rows, source |-> DefaultSource(rows)]]

\* most rows of a table handed to the constructor
MaxFrameRows == 2

\* the values of a timing column: floats, some of the full significand
FloatValues ==
    {0, 1, 3, Pow2(SignificandBits) - 1, Pow2(SignificandBits + 1) - 2}

ColumnValues(c) ==
    IF c = "pitch" THEN {60} ELSE IF c = "velocity" THEN {80} ELSE FloatValues

\* a table of any of the five columns, without rows yet
InitConstruct ==
    /\ part = "construct"
    /\ IdleBut("construct")
    /\ piece = Null /\ piece_call = Null
    /\ \E columns \in SUBSET AllColumns : frame = [columns |-> columns, rows |-> <<>>]

\* the table holds one more row
AddFrameRow ==
    /\ part = "construct"
    /\ piece_call = Null
    /\ Len(frame.rows) < MaxFrameRows
    /\ \E row \in [frame.columns -> FloatValues \cup {60, 80}] :
          /\ \A c \in frame.columns : row[c] \in ColumnValues(c)
          /\ frame' = [frame EXCEPT !.rows = Append(@, row)]
    /\ UNCHANGED <<piece, piece_call, otherThanPiece>>

\* MidiPiece(df=frame)
Construct ==
    /\ part = "construct"
    /\ piece_call = Null
    /\ LET r == post_init(frame)
       IN  /\ piece_call' = [op |-> "construct", columns |-> frame.columns,
                             raised |-> r.raised, out |-> r.out]
           /\ frame' = r.frame
           /\ piece' = r.out
    /\ UNCHANGED otherThanPiece

NextConstruct == AddFrameRow \/ Construct

SpecConstruct == InitConstruct /\ [][NextConstruct]_vars

----------------------------------------------------------------------------
(* structures.py:107-275  a sequence of slices and trims of one piece *)

\* most rows of the first piece, most slices and trims applied in a row
MaxChainNotes == 3
MaxSteps == 2

\* the first piece P0 is constructed from a note table, here without rows
InitChain ==
    /\ part = "chain"
    /\ IdleBut("chain")
    /\ piece = [df |-> <<>>, source |-> DefaultSource(<<>>)]
    /\ piece_call = Null /\ frame = Null

\* the table of P0 holds one more row, of its own pitch; the starts are floats
\* in any order
AddChainRow ==
    /\ part = "chain"
    /\ piece_call = Null
    /\ Len(piece.df) < MaxChainNotes
    /\ \E s \in FloatValues :
          LET rows == Append(piece.df, PieceRow(60 + Len(piece.df), 80, s, s))
          IN  piece' = [df |-> rows, source |-> DefaultSource(rows)]
    /\ UNCHANGED <<piece_call, frame, otherThanPiece>>

\* the sequence starts from P0: out is the piece the next step applies to,
\* shifts the number of steps so far that shifted the times
StartChain ==
    /\ part = "chain"
    /\ piece_call = Null
    /\ piece_call' = [op |-> "chain", out |-> piece, steps |-> 0, shifts |-> 0]
    /\ UNCHANGED <<piece, frame, otherThanPiece>>

\* out = out[a:b] with 0 <= a <= b <= out.size, shift_time on or off
SliceStep ==
    /\ part = "chain"
    /\ piece_call # Null
    /\ piece_call.steps < MaxSteps
    /\ \E a \in 0..MaxChainNotes, b \in 0..MaxChainNotes, shift_time \in BOOLEAN :
          /\ a <= b /\ b <= Len(piece_call.out.df)
          /\ piece_call' = [op |-> "chain",
                            out |-> getitem(piece_call.out, a, b, shift_time),
                            steps |-> piece_call.steps + 1,
                            shifts |-> piece_call.shifts + (IF shift_time THEN 1 ELSE 0)]
    /\ UNCHANGED <<piece, frame, otherThanPiece>>

\* out = out.trim(start, finish, shift_time, slice_type), for the calls that
\* return a piece
TrimStep ==
    /\ part = "chain"
    /\ piece_call # Null
    /\ piece_call.steps < MaxSteps
    /\ \E start \in FloatValues, finish \in FloatValues, shift_time \in BOOLEAN,
          slice_type \in {"standard", "by_end", "index"} :
          LET r == trim(piece_call.out, start, finish, shift_time, slice_type)
          IN  /\ r.raised = "none"
              /\ piece_call' = [op |-> "chain", out |-> r.out,
                                steps |-> piece_call.steps + 1,
                                shifts |-> piece_call.shifts + (IF shift_time THEN 1 ELSE 0)]
    /\ UNCHANGED <<piece, frame, otherThanPiece>>

NextChain == AddChainRow \/ StartChain \/ SliceStep \/ TrimStep

SpecChain == InitChain /\ [][NextChain]_vars

----------------------------------------------------------------------------
(* structures.py: the duration of a MidiFile; MidiFile.merge_files *)

\* most files handed to merge_files, most notes of one file
MaxFiles == 2
MaxFileNotes == 2

\* a variant of instrument_end_time: the end of the last note of the list
instrument_end_time_last(inst) ==
    IF inst.notes = <<>> THEN 0 ELSE inst.notes[Len(inst.notes)].end

\* containers.py:24-40  Instrument.get_end_time
instrument_end_time(inst) ==
    LET events == {inst.notes[i].end : i \in 1..Len(inst.notes)}
                  \cup {inst.control_changes[i].time : i \in 1..Len(inst.control_changes)}
    IN  IF events = {} THEN 0 ELSE SetMax(events)

\* structures.py:857-878  MidiFile.get_end_time; meta_times holds the times
\* of the key and time signatures, lyrics and texts, tempo_change_times the
\* times get_tempo_changes returns
get_end_time(f) ==
    LET times == {instrument_end_time(f.instruments[i]) : i \in 1..Len(f.instruments)}
                 \cup f.meta_times \cup f.tempo_change_times
    IN  IF times = {} THEN 0 ELSE SetMax(times)

\* structures.py:427-429  MidiFile.duration
duration(f) == get_end_time(f)

RECURSIVE SeqSum(_)
SeqSum(q) == IF q = <<>> THEN 0 ELSE Head(q) + SeqSum(Tail(q))

\* a variant of MidiFile.notes that reads the first instrument alone
notes_count_first_instrument(f) ==
    IF f.instruments = <<>> THEN 0 ELSE Len(f.instruments[1].notes)

\* structures.py:431-436  MidiFile.notes: the notes of every instrument
notes_count(f) == SeqSum([i \in 1..Len(f.instruments) |-> Len(f.instruments[i].notes)])

\* every event of a file, later by offset
shift_instrument(inst, offset) ==
    [notes |-> [i \in 1..Len(inst.notes) |->
                   [inst.notes[i] EXCEPT !.start = @ + offset, !.end = @ + offset]],
     control_changes |-> [i \in 1..Len(inst.control_changes) |->
                   [inst.control_changes[i] EXCEPT !.time = @ + offset]]]

shift_file(f, offset) ==
    [instruments |-> [i \in 1..Len(f.instruments) |->
                         shift_instrument(f.instruments[i], offset)],
     meta_times |-> {t + offset : t \in f.meta_times},
     tempo_change_times |-> {t + offset : t \in f.tempo_change_times}]

\* MidiFile.merge_files(midi_files, space): the files one after the other,
\* each later by the durations of the files before it and by space after each
RECURSIVE merge_files_from(_, _, _, _)
merge_files_from(midi_files, space, k, acc) ==
    IF k > Len(midi_files) THEN acc.file
    ELSE LET g == shift_file(midi_files[k], acc.offset)
         IN  merge_files_from(midi_files, space, k + 1,
                [file |-> [instruments |-> acc.file.instruments \o g.instruments,
                           meta_times |-> acc.file.meta_times \cup g.meta_times,
                           tempo_change_times |-> acc.file.tempo_change_times
                                                  \cup g.tempo_change_times],
                 offset |-> acc.offset + duration(midi_files[k]) + space])

merge_files(midi_files, space) ==
    merge_files_from(midi_files, space, 1, [file |-> EmptyFile, offset |-> 0])

InitMerge ==
    /\ part = "merge"
    /\ IdleBut("merge")
    /\ files = <<>>
    /\ merged = Null

\* one more file, as decoded from a stream without notes
NewFile ==
    /\ part = "merge" /\ merged = Null
    /\ Len(files) < MaxFiles
    /\ files' = Append(files, EmptyFile)
    /\ UNCHANGED <<merged, otherThanMerge>>

LastFile == files[Len(files)]

\* the last file holds one more instrument
NewInstrument ==
    /\ part = "merge" /\ merged = Null
    /\ files # <<>>
    /\ Len(LastFile.instruments) < 2
    /\ files' = [files EXCEPT ![Len(files)].instruments = Append(@, EmptyInstrument)]
    /\ UNCHANGED <<merged, otherThanMerge>>

\* the last instrument of the last file holds one more note
AddFileNote ==
    /\ part = "merge" /\ merged = Null
    /\ files # <<>> /\ LastFile.instruments # <<>>
    /\ notes_count(LastFile) < MaxFileNotes
    /\ \E s \in 0..MaxTime, e \in 0..MaxTime :
          /\ s < e
          /\ files' = [files EXCEPT ![Len(files)].instruments[Len(LastFile.instruments)].notes =
                          Append(@, [pitch |-> 60, velocity |-> 80, start |-> s, end |-> e])]
    /\ UNCHANGED <<merged, otherThanMerge>>

\* the last instrument of the last file holds one more control change
AddFileControl ==
    /\ part = "merge" /\ merged = Null
    /\ files # <<>> /\ Len(LastFile.instruments) = 1
    /\ LastFile.instruments[1].control_changes = <<>>
    /\ \E t \in 0..MaxTime :
          files' = [files EXCEPT ![Len(files)].instruments[Len(LastFile.instruments)].control_changes =
                        Append(@, [number |-> 64, value |-> 100, time |-> t])]
    /\ UNCHANGED <<merged, otherThanMerge>>

\* the last file holds one more meta event (a signature, a lyric or a text)
AddFileMeta ==
    /\ part = "merge" /\ merged = Null
    /\ files # <<>>
    /\ LastFile.meta_times = {}
    /\ \E t \in {1, MaxTime + 1} :
          files' = [files EXCEPT ![Len(files)].meta_times = @ \cup {t}]
    /\ UNCHANGED <<merged, otherThanMerge>>

\* MidiFile.merge_files(files, space)
MergeFiles ==
    /\ part = "merge" /\ merged = Null
    /\ \E space \in 0..1 :
          merged' = [space |-> space, file |-> merge_files(files, space)]
    /\ UNCHANGED <<files, otherThanMerge>>

NextMerge ==
    NewFile \/ NewInstrument \/ AddFileNote \/ AddFileControl \/ AddFileMeta \/ MergeFiles

SpecMerge == InitMerge /\ [][NextMerge]_vars

----------------------------------------------------------------------------
(* structures.py: decoding an event stream (MidiFile._process_midi_file) *)

\* one event of a track (a mido message); time is its absolute tick
\* (structures.py:470-474), text holds the text of a lyric or text event and
\* the name of a track_name event
Event(type, time) ==
    [type |-> type, time |-> time, channel |-> 0, note |-> 0, velocity |-> 0,
     control |-> 0, value |-> 0, program |-> 0, tempo |-> 0, text |-> "",
     numerator |-> 0, denominator |-> 0, key |-> 0, pitch |-> 0]

SetTempo(time, tempo) == [Event("set_tempo", time) EXCEPT !.tempo = tempo]
NoteOnEvent(time, channel, note, velocity) ==
    [Event("note_on", time) EXCEPT !.channel = channel, !.note = note,
                                   !.velocity = velocity]
NoteOffEvent(time, channel, note) ==
    [Event("note_off", time) EXCEPT !.channel = channel, !.note = note]
ControlChangeEvent(time, channel, control, value) ==
    [Event("control_change", time) EXCEPT !.channel = channel, !.control = control,
                                          !.value = value]
PitchwheelEvent(time, channel, pitch) ==
    [Event("pitchwheel", time) EXCEPT !.channel = channel, !.pitch = pitch]
ProgramChangeEvent(time, channel, program) ==
    [Event("program_change", time) EXCEPT !.channel = channel, !.program = program]
LyricsEvent(time, text) == [Event("lyrics", time) EXCEPT !.text = text]
TextEvent(time, text) == [Event("text", time) EXCEPT !.text = text]
TrackNameEvent(time, name) == [Event("track_name", time) EXCEPT !.text = name]
TimeSignatureEvent(time, numerator, denominator) ==
    [Event("time_signature", time) EXCEPT !.numerator = numerator,
                                          !.denominator = denominator]
KeySignatureEvent(time, key) == [Event("key_signature", time) EXCEPT !.key = key]
EndOfTrackEvent(time) == Event("end_of_track", time)

\* the events of one type, in track order
EventsOfType(track, type) == SelectSeq(track, LAMBDA e : e.type = type)

\* structures.py:541-542  get_max_tick (every track holds an event)
get_max_tick(md) ==
    SetMax(UNION {{md.tracks[t][i].time : i \in 1..Len(md.tracks[t])} :
                  t \in 1..Len(md.tracks)}) + 1

\* heapq.merge of two lists ordered by time: at equal times the item of the
\* first list comes first
RECURSIVE merge2(_, _)
merge2(a, b) ==
    IF a = <<>> THEN b
    ELSE IF b = <<>> THEN a
    ELSE IF b[1].time < a[1].time
         THEN <<b[1]>> \o merge2(a, Tail(b))
         ELSE <<a[1]>> \o merge2(Tail(a), b)

\* structures.py:652-654  heapq.merge of the lists of every track
RECURSIVE merge_all(_)
merge_all(lists) ==
    IF lists = <<>> THEN <<>> ELSE merge2(Head(lists), merge_all(Tail(lists)))

\* a variant of load_key_signatures that reads the key signatures of every
\* track, one track after the other
load_key_signatures_all_tracks(md, table) ==
    LET RECURSIVE from(_)
        from(t) ==
            IF t > Len(md.tracks) THEN <<>>
            ELSE LET events == EventsOfType(md.tracks[t], "key_signature")
                 IN  [i \in 1..Len(events) |->
                         [key_number |-> events[i].key,
                          time |-> table[events[i].time + 1]]] \o from(t + 1)
    IN  from(1)

\* structures.py:624-631  the key and time signatures of track 0
load_key_signatures(md, table) ==
    LET events == EventsOfType(md.tracks[1], "key_signature")
    IN  [i \in 1..Len(events) |->
            [key_number |-> events[i].key, time |-> table[events[i].time + 1]]]

load_time_signatures(md, table) ==
    LET events == EventsOfType(md.tracks[1], "time_signature")
    IN  [i \in 1..Len(events) |->
            [numerator |-> events[i].numerator, denominator |-> events[i].denominator,
             time |-> table[events[i].time + 1]]]

\* structures.py:633-654  the lyrics (type "lyrics") or texts (type "text") of
\* every track, merged by time
load_texts(md, table, type) ==
    LET of_track(t) ==
            LET events == EventsOfType(md.tracks[t], type)
            IN  [i \in 1..Len(events) |->
                    [text |-> events[i].text, time |-> table[events[i].time + 1]]]
    IN  merge_all([t \in 1..Len(md.tracks) |-> of_track(t)])

----------------------------------------------------------------------------
(* structures.py:682-815  _load_instruments *)

\* The state of the decoding loop.  Instrument objects live in the list
\* `objects`; instrument_map and stragglers hold positions in it.  The
\* control-change lists live in `cc_lists`, and an instrument holds the
\* position of its list, because structures.py:727 gives a new instrument
\* the very list object of its straggler.
InitialLoadState ==
    [instrument_map |-> <<>>,      \* [key |-> <<program, channel, track>>, obj]
     stragglers |-> <<>>,          \* [key |-> <<channel, track>>, obj]
     objects |-> <<>>,             \* [program, is_drum, name, notes, cc_list]
     cc_lists |-> <<>>,
     track_name_map |-> <<>>,      \* [track, name]
     last_note_on |-> <<>>,        \* a function: <<channel, note>> to open note-ons
     current_instrument |-> [c \in 0..15 |-> 0]]

\* structures.py:747-750  what each track starts from
StartTrack(st) ==
    [st EXCEPT !.last_note_on = <<>>, !.current_instrument = [c \in 0..15 |-> 0]]

\* position (or 0) of the entry of a key in instrument_map or stragglers
EntryOf(entries, key) ==
    LET found == {i \in 1..Len(entries) : entries[i].key = key}
    IN  IF found = {} THEN 0 ELSE SetMin(found)

\* structures.py:703  track_name_map[track]: "" when no name was met
TrackName(st, track) ==
    LET i == EntryOf([k \in 1..Len(st.track_name_map) |->
                         [key |-> st.track_name_map[k].track]], track)
    IN  IF i = 0 THEN "" ELSE st.track_name_map[i].name

\* structures.py:705-741  __get_instrument: [st, obj], obj the position of the
\* instrument in st.objects
get_instrument(st, program, channel, track, create_new) ==
    LET mapped == EntryOf(st.instrument_map, <<program, channel, track>>)
        straggling == EntryOf(st.stragglers, <<channel, track>>)
        new_obj == Len(st.objects) + 1
        new_list == Len(st.cc_lists) + 1
    IN  IF mapped # 0
        THEN [st |-> st, obj |-> st.instrument_map[mapped].obj]
        ELSE IF ~create_new /\ straggling # 0
        THEN [st |-> st, obj |-> st.stragglers[straggling].obj]
        ELSE IF create_new
        THEN LET shares == straggling # 0
                 instrument ==
                     [program |-> program, is_drum |-> (channel = 9),
                      name |-> TrackName(st, track), notes |-> <<>>,
                      cc_list |-> IF shares
                                  THEN st.objects[st.stragglers[straggling].obj].cc_list
                                  ELSE new_list]
             IN  [st |-> [st EXCEPT
                            !.objects = Append(@, instrument),
                            !.cc_lists = IF shares THEN @ ELSE Append(@, <<>>),
                            !.instrument_map =
                                Append(@, [key |-> <<program, channel, track>>,
                                           obj |-> new_obj])],
                  obj |-> new_obj]
        ELSE \* a straggler: Instrument(program, track_name_map[track_idx]), so
             \* the track name lands in is_drum, which is true when it is not ""
             LET instrument ==
                     [program |-> program, is_drum |-> (TrackName(st, track) # ""),
                      name |-> "", notes |-> <<>>, cc_list |-> new_list]
             IN  [st |-> [st EXCEPT
                            !.objects = Append(@, instrument),
                            !.cc_lists = Append(@, <<>>),
                            !.stragglers =
                                Append(@, [key |-> <<channel, track>>, obj |-> new_obj])],
                  obj |-> new_obj]

\* structures.py:782-795  the loop over notes_to_close
RECURSIVE close_notes(_, _, _, _, _, _)
close_notes(st, notes_to_close, k, event, track, table) ==
    IF k > Len(notes_to_close) THEN st
    ELSE LET start_tick == notes_to_close[k][1]
             velocity == notes_to_close[k][2]
             note == [velocity |-> velocity, pitch |-> event.note,
                      start |-> table[start_tick + 1], end |-> table[event.time + 1]]
             program == st.current_instrument[event.channel]
             got == get_instrument(st, program, event.channel, track, TRUE)
             st2 == [got.st EXCEPT !.objects[got.obj].notes = Append(@, note)]
         IN  close_notes(st2, notes_to_close, k + 1, event, track, table)

\* the map without a key
WithoutKey(f, key) == [k \in (DOMAIN f) \ {key} |-> f[k]]

\* the map with a key set
WithKey(f, key, value) ==
    [k \in (DOMAIN f) \cup {key} |-> IF k = key THEN value ELSE f[k]]

\* a variant of load_note_off that reads last_note_on[key] of the defaultdict
\* before it tests the key, which makes an entry for a key that has none
load_note_off_touching(st, event, track, table) ==
    LET key == <<event.channel, event.note>>
    IN  IF key \in DOMAIN st.last_note_on
        THEN LET end_tick == event.time
                 open_notes == st.last_note_on[key]
                 notes_to_close == SelectSeq(open_notes, LAMBDA o : o[1] # end_tick)
                 notes_to_keep == SelectSeq(open_notes, LAMBDA o : o[1] = end_tick)
                 st2 == close_notes(st, notes_to_close, 1, event, track, table)
             IN  IF Len(notes_to_close) > 0 /\ Len(notes_to_keep) > 0
                 THEN [st2 EXCEPT !.last_note_on = WithKey(@, key, notes_to_keep)]
                 ELSE [st2 EXCEPT !.last_note_on = WithoutKey(@, key)]
        ELSE [st EXCEPT !.last_note_on = WithKey(@, key, <<>>)]

\* a variant of load_note_off that closes every open entry of the key, those
\* of the note-off's own tick too
load_note_off_closing_all(st, event, track, table) ==
    LET key == <<event.channel, event.note>>
    IN  IF key \in DOMAIN st.last_note_on
        THEN LET st2 == close_notes(st, st.last_note_on[key], 1, event, track, table)
             IN  [st2 EXCEPT !.last_note_on = WithoutKey(@, key)]
        ELSE st

\* a variant of load_note_off that clears the key's open list whenever it
\* closes or drops entries, also when entries of the note-off's own tick remain
load_note_off_clearing(st, event, track, table) ==
    LET key == <<event.channel, event.note>>
    IN  IF key \in DOMAIN st.last_note_on
        THEN LET end_tick == event.time
                 open_notes == st.last_note_on[key]
                 notes_to_close == SelectSeq(open_notes, LAMBDA o : o[1] # end_tick)
                 st2 == close_notes(st, notes_to_close, 1, event, track, table)
             IN  [st2 EXCEPT !.last_note_on = WithoutKey(@, key)]
        ELSE st

\* structures.py:766-803  a note-off, or a note-on of velocity 0
load_note_off(st, event, track, table) ==
    LET key == <<event.channel, event.note>>
    IN  IF key \in DOMAIN st.last_note_on
        THEN LET end_tick == event.time
                 open_notes == st.last_note_on[key]
                 notes_to_close == SelectSeq(open_notes, LAMBDA o : o[1] # end_tick)
                 notes_to_keep == SelectSeq(open_notes, LAMBDA o : o[1] = end_tick)
                 st2 == close_notes(st, notes_to_close, 1, event, track, table)
             IN  IF Len(notes_to_close) > 0 /\ Len(notes_to_keep) > 0
                 THEN [st2 EXCEPT !.last_note_on = WithKey(@, key, notes_to_keep)]
                 ELSE [st2 EXCEPT !.last_note_on = WithoutKey(@, key)]
        ELSE st

\* structures.py:751-813  the body of the loop, for one event of a track
load_event(st, event, track, table) ==
    LET named ==
            IF event.type = "track_name"
            THEN [st EXCEPT !.track_name_map =
                     SelectSeq(@, LAMBDA n : n.track # track)
                     \o <<[track |-> track, name |-> event.text]>>]
            ELSE st
    IN  IF event.type = "program_change"
        THEN [named EXCEPT !.current_instrument[event.channel] = event.program]
        ELSE IF event.type = "note_on" /\ event.velocity > 0
        THEN LET key == <<event.channel, event.note>>
                 open == IF key \in DOMAIN named.last_note_on
                         THEN named.last_note_on[key] ELSE <<>>
             IN  [named EXCEPT !.last_note_on =
                     WithKey(@, key, Append(open, <<event.time, event.velocity>>))]
        ELSE IF event.type = "note_off"
                \/ (event.type = "note_on" /\ event.velocity = 0)
        THEN load_note_off(named, event, track, table)
        ELSE IF event.type = "control_change"
        THEN LET control_change == [number |-> event.control, value |-> event.value,
                                    time |-> table[event.time + 1]]
                 program == named.current_instrument[event.channel]
                 got == get_instrument(named, program, event.channel, track, FALSE)
             IN  [got.st EXCEPT !.cc_lists[got.st.objects[got.obj].cc_list] =
                                    Append(@, control_change)]
        ELSE named

\* the loop over the events of one track, from event k on
RECURSIVE load_track(_, _, _, _, _)
load_track(st, events, k, track, table) ==
    IF k > Len(events) THEN st
    ELSE load_track(load_event(st, events[k], track, table), events, k + 1, track, table)

\* structures.py:743-813  the loop over the tracks, from track t (1-based) on;
\* track_idx counts from 0
RECURSIVE load_tracks(_, _, _, _)
load_tracks(st, tracks, t, table) ==
    IF t > Len(tracks) THEN st
    ELSE load_tracks(load_track(StartTrack(st), tracks[t], 1, t - 1, table),
                     tracks, t + 1, table)

\* structures.py:815  self.instruments: the instruments of instrument_map, in
\* the order they were made, each with the control changes its list holds
instruments_of(st) ==
    [i \in 1..Len(st.instrument_map) |->
        LET o == st.objects[st.instrument_map[i].obj]
        IN  [program |-> o.program, is_drum |-> o.is_drum, name |-> o.name,
             notes |-> o.notes, cc_list |-> o.cc_list,
             control_changes |-> st.cc_lists[o.cc_list],
             \* no event fills pitch_bends while decoding (containers.py:21)
             pitch_bends |-> <<>>]]

load_instruments(md, table) ==
    instruments_of(load_tracks(InitialLoadState, md.tracks, 1, table))

----------------------------------------------------------------------------
(* structures.py:466-539  _process_midi_file: the MidiFile of an event stream *)

\* structures.py:497  a tempo, key or time signature event on a track other
\* than track 0
MetaOffTrackZero(md) ==
    \E t \in 2..Len(md.tracks) : \E i \in 1..Len(md.tracks[t]) :
        md.tracks[t][i].type \in {"set_tempo", "key_signature", "time_signature"}

process_midi_file(md) ==
    IF \E t \in 1..Len(md.tracks) : md.tracks[t] = <<>>
    THEN [raised |-> "ValueError"]           \* get_max_tick: max() of nothing
    ELSE LET scales == load_tempo_changes(EventsOfType(md.tracks[1], "set_tempo"),
                                          1, InitialTickScales)
             max_tick == get_max_tick(md)
         IN  IF max_tick_too_large(max_tick)
             THEN [raised |-> "ValueError"]  \* structures.py:486-487
             ELSE LET table == update_tick_to_time(scales, max_tick)
                  IN  [raised |-> "none",
                       warned |-> MetaOffTrackZero(md),   \* structures.py:495-505
                       resolution |-> md.ticks_per_beat,
                       tick_scales |-> scales,
                       tick_to_time |-> table,
                       key_signature_changes |-> load_key_signatures(md, table),
                       time_signature_changes |-> load_time_signatures(md, table),
                       lyrics |-> load_texts(md, table, "lyrics"),
                       text_events |-> load_texts(md, table, "text"),
                       instruments |-> load_instruments(md, table)]

\* structures.py:437-441  MidiFile.control_changes: the control changes of
\* every instrument, one instrument after the other
RECURSIVE control_changes_from(_, _)
control_changes_from(instruments, i) ==
    IF i > Len(instruments) THEN <<>>
    ELSE instruments[i].control_changes \o control_changes_from(instruments, i + 1)

control_changes(f) == control_changes_from(f.instruments, 1)

\* the times of a list of timed objects
TimesOf(list) == {list[i].time : i \in 1..Len(list)}

\* structures.py:843-855  get_tempo_changes()[0]: the time of each tick scale
tempo_change_times(f) ==
    {f.tick_to_time[f.tick_scales[k][1] + 1] : k \in 1..Len(f.tick_scales)}

\* structures.py:866-873  what get_end_time reads of a MidiFile
EndTimeView(f) ==
    [instruments |-> f.instruments,
     meta_times |-> TimesOf(f.time_signature_changes) \cup TimesOf(f.key_signature_changes)
                    \cup TimesOf(f.lyrics) \cup TimesOf(f.text_events),
     tempo_change_times |-> tempo_change_times(f)]

----------------------------------------------------------------------------
(* structures.py:892-1119  time_to_tick and write *)

\* structures.py:952-964  the scores of secondary_sort, by event type
SecondarySortTypes ==
    {"set_tempo", "time_signature", "key_signature", "lyrics", "text_events",
     "program_change", "pitchwheel", "control_change", "note_off", "note_on",
     "end_of_track"}

secondary_sort(e) ==
    CASE e.type = "set_tempo" -> 1 * 256 * 256
      [] e.type = "time_signature" -> 2 * 256 * 256
      [] e.type = "key_signature" -> 3 * 256 * 256
      [] e.type = "lyrics" -> 4 * 256 * 256
      [] e.type = "text_events" -> 5 * 256 * 256
      [] e.type = "program_change" -> 6 * 256 * 256
      [] e.type = "pitchwheel" -> (7 * 256 * 256) + e.pitch
      [] e.type = "control_change" -> (8 * 256 * 256) + (e.control * 256) + e.value
      [] e.type = "note_off" -> (9 * 256 * 256) + (e.note * 256)
      [] e.type = "note_on" -> (10 * 256 * 256) + (e.note * 256) + e.velocity
      [] e.type = "end_of_track" -> 11 * 256 * 256

\* a variant of event_compare that compares the ticks only
event_compare_ticks(event1, event2) == event1.time - event2.time

\* structures.py:933-971  event_compare
event_compare(event1, event2) ==
    IF /\ event1.time = event2.time
       /\ event1.type \in SecondarySortTypes
       /\ event2.type \in SecondarySortTypes
    THEN secondary_sort(event1) - secondary_sort(event2)
    ELSE event1.time - event2.time

\* a stable sort by event_compare (list.sort and sorted with cmp_to_key): each
\* event goes after the last event it is not smaller than
RECURSIVE insert_event(_, _)
insert_event(sorted, e) ==
    IF sorted = <<>> THEN <<e>>
    ELSE IF event_compare(e, sorted[Len(sorted)]) < 0
         THEN Append(insert_event(SubSeq(sorted, 1, Len(sorted) - 1), e),
                     sorted[Len(sorted)])
         ELSE Append(sorted, e)

RECURSIVE sort_events(_)
sort_events(events) ==
    IF events = <<>> THEN <<>>
    ELSE insert_event(sort_events(SubSeq(events, 1, Len(events) - 1)),
                      events[Len(events)])

\* a variant of swap_note_off_first that exchanges the pairs in which the
\* note-off already comes first
RECURSIVE swap_note_on_first(_, _, _)
swap_note_on_first(sorted, track, n) ==
    IF n >= Len(sorted) THEN track
    ELSE LET event1 == sorted[n]
             event2 == sorted[n + 1]
         IN  IF /\ event1.time = event2.time
                /\ event1.type = "note_on" /\ event2.type = "note_on"
                /\ event1.note = event2.note
                /\ event1.velocity = 0 /\ event2.velocity # 0
             THEN swap_note_on_first(sorted,
                      [track EXCEPT ![n] = event2, ![n + 1] = event1], n + 1)
             ELSE swap_note_on_first(sorted, track, n + 1)

\* structures.py:1096-1106  a note-on followed by the note-off of the same
\* tick and pitch change places; the pairs are those of the sorted track
RECURSIVE swap_note_off_first(_, _, _)
swap_note_off_first(sorted, track, n) ==
    IF n >= Len(sorted) THEN track
    ELSE LET event1 == sorted[n]
             event2 == sorted[n + 1]
         IN  IF /\ event1.time = event2.time
                /\ event1.type = "note_on" /\ event2.type = "note_on"
                /\ event1.note = event2.note
                /\ event1.velocity # 0 /\ event2.velocity = 0
             THEN swap_note_off_first(sorted,
                      [track EXCEPT ![n] = event2, ![n + 1] = event1], n + 1)
             ELSE swap_note_off_first(sorted, track, n + 1)

\* the end_of_track event one tick after the last event of a track
with_end_of_track(track) == Append(track, EndOfTrackEvent(track[Len(track)].time + 1))

\* The (resolution, tempo) pairs, among the resolutions Resolutions and the
\* tempos 2, 3, 4 and 500000 of the model's streams, for which the float
\* expression int(6e7 / (60.0 / (tick_scale * resolution))), with
\* tick_scale = 60.0 / ((6e7 / tempo) * resolution), comes out as tempo - 1:
\* the quotient is a hair below the whole number and int() cuts it off.
FloatCutsBelow == {<<21, 3>>}

\* structures.py:992  the tempo written for a tick scale
write_tempo(res, tick_scale) ==
    IF <<res, tick_scale>> \in FloatCutsBelow THEN tick_scale - 1 ELSE tick_scale

\* structures.py:974-1045  track 0 of the written stream
timing_track(f) ==
    LET add_ts == IF f.time_signature_changes # <<>>
                  THEN SetMin(TimesOf(f.time_signature_changes)) > 0
                  ELSE TRUE
        default_ts == IF add_ts THEN <<TimeSignatureEvent(0, 4, 4)>> ELSE <<>>
        tempi == [k \in 1..Len(f.tick_scales) |->
                     SetTempo(f.tick_scales[k][1],
                              write_tempo(f.resolution, f.tick_scales[k][2]))]
        tss == [i \in 1..Len(f.time_signature_changes) |->
                   LET ts == f.time_signature_changes[i]
                   IN  TimeSignatureEvent(time_to_tick(f, ts.time),
                                          ts.numerator, ts.denominator)]
        kss == [i \in 1..Len(f.key_signature_changes) |->
                   LET ks == f.key_signature_changes[i]
                   IN  KeySignatureEvent(time_to_tick(f, ks.time), ks.key_number)]
        lyrs == [i \in 1..Len(f.lyrics) |->
                    LyricsEvent(time_to_tick(f, f.lyrics[i].time), f.lyrics[i].text)]
        texs == [i \in 1..Len(f.text_events) |->
                    TextEvent(time_to_tick(f, f.text_events[i].time),
                              f.text_events[i].text)]
    IN  with_end_of_track(sort_events(default_ts \o tempi \o tss \o kss \o lyrs \o texs))

\* a variant of channel_of that gives drums a channel like any instrument
channel_of_position(instrument, n) ==
    LET k == n % 15 IN IF k < 9 THEN k ELSE k + 1

\* structures.py:1048-1062  the channel of the n-th instrument (n from 0)
channel_of(instrument, n) ==
    IF instrument.is_drum THEN 9
    ELSE LET k == n % 15 IN IF k < 9 THEN k ELSE k + 1

RECURSIVE note_events(_, _, _, _)
note_events(f, notes, i, channel) ==
    IF i > Len(notes) THEN <<>>
    ELSE <<NoteOnEvent(time_to_tick(f, notes[i].start), channel,
                       notes[i].pitch, notes[i].velocity),
           NoteOnEvent(time_to_tick(f, notes[i].end), channel, notes[i].pitch, 0)>>
         \o note_events(f, notes, i + 1, channel)

\* structures.py:1051-1110  the track written for the n-th instrument
instrument_track(f, n) ==
    LET instrument == f.instruments[n + 1]
        channel == channel_of(instrument, n)
        name == IF instrument.name # "" THEN <<TrackNameEvent(0, instrument.name)>>
                ELSE <<>>
        ccs == [i \in 1..Len(instrument.control_changes) |->
                   LET cc == instrument.control_changes[i]
                   IN  ControlChangeEvent(time_to_tick(f, cc.time), channel,
                                          cc.number, cc.value)]
        bends == [i \in 1..Len(instrument.pitch_bends) |->
                     PitchwheelEvent(time_to_tick(f, instrument.pitch_bends[i].time),
                                     channel, instrument.pitch_bends[i].pitch)]
        track == name \o <<ProgramChangeEvent(0, channel, instrument.program)>>
                 \o note_events(f, instrument.notes, 1, channel) \o bends \o ccs
        sorted == sort_events(track)
    IN  with_end_of_track(swap_note_off_first(sorted, sorted, 1))

\* structures.py:1112-1116  absolute ticks to the delta times of the file
to_relative(track) ==
    [i \in 1..Len(track) |->
        [track[i] EXCEPT !.time = @ - (IF i = 1 THEN 0 ELSE track[i - 1].time)]]

\* structures.py:470-474  delta times to absolute ticks
RECURSIVE to_absolute_from(_, _, _)
to_absolute_from(track, i, tick) ==
    IF i > Len(track) THEN <<>>
    ELSE <<[track[i] EXCEPT !.time = @ + tick]>>
         \o to_absolute_from(track, i + 1, track[i].time + tick)

to_absolute(track) == to_absolute_from(track, 1, 0)

\* structures.py:924-1119  write: the stream saved, in delta times
write(f) ==
    [ticks_per_beat |-> f.resolution,
     tracks |-> [t \in 1..(Len(f.instruments) + 1) |->
                    to_relative(IF t = 1 THEN timing_track(f)
                                ELSE instrument_track(f, t - 2))]]

\* structures.py:467-474  the stream read back, in absolute ticks
read_stream(saved) ==
    [ticks_per_beat |-> saved.ticks_per_beat,
     tracks |-> [t \in 1..Len(saved.tracks) |-> to_absolute(saved.tracks[t])]]

----------------------------------------------------------------------------
(* Decoding a stream, writing the MidiFile and decoding what was written *)

\* most events of a drawn stream, most tracks
MaxEvents == 3
MaxTracks == 2

Resolutions == {4, 21}
Deltas == {0, 1, 3}

\* the events a stream is drawn from (their time is set when they are added)
EventKinds ==
    {SetTempo(0, 3), SetTempo(0, 4),
     NoteOnEvent(0, 0, 60, 80), NoteOnEvent(0, 0, 60, 0), NoteOffEvent(0, 0, 60),
     ControlChangeEvent(0, 0, 64, 100), ProgramChangeEvent(0, 0, 1),
     LyricsEvent(0, "la")}

EventCount(md) == SeqSum([t \in 1..Len(md.tracks) |-> Len(md.tracks[t])])

InitCodec ==
    /\ part = "codec"
    /\ IdleBut("codec")
    /\ \E r \in Resolutions : midi_data = [ticks_per_beat |-> r, tracks |-> << <<>> >>]
    /\ midi_file = Null /\ written = Null /\ reloaded = Null

\* the last track of the stream holds one more event, delta ticks after the
\* event before it
AddEvent ==
    /\ part = "codec" /\ midi_file = Null
    /\ EventCount(midi_data) < MaxEvents
    /\ \E kind \in EventKinds, delta \in Deltas :
          LET t == Len(midi_data.tracks)
              track == midi_data.tracks[t]
              tick == IF track = <<>> THEN 0 ELSE track[Len(track)].time
          IN  midi_data' = [midi_data EXCEPT
                               !.tracks[t] = Append(@, [kind EXCEPT !.time = tick + delta])]
    /\ UNCHANGED <<midi_file, written, reloaded, otherThanCodec>>

\* the stream holds one more track
NewTrack ==
    /\ part = "codec" /\ midi_file = Null
    /\ Len(midi_data.tracks) < MaxTracks
    /\ midi_data.tracks[Len(midi_data.tracks)] # <<>>
    /\ midi_data' = [midi_data EXCEPT !.tracks = Append(@, <<>>)]
    /\ UNCHANGED <<midi_file, written, reloaded, otherThanCodec>>

\* MidiFile(path): the stream is decoded
Decode ==
    /\ part = "codec" /\ midi_file = Null
    /\ midi_file' = process_midi_file(midi_data)
    /\ UNCHANGED <<midi_data, written, reloaded, otherThanCodec>>

\* midi_file.write(filename)
Write ==
    /\ part = "codec" /\ midi_file # Null /\ midi_file.raised = "none"
    /\ written = Null
    /\ written' = write(midi_file)
    /\ UNCHANGED <<midi_data, midi_file, reloaded, otherThanCodec>>

\* MidiFile(filename) of the file written
Reload ==
    /\ part = "codec" /\ written # Null /\ reloaded = Null
    /\ reloaded' = process_midi_file(read_stream(written))
    /\ UNCHANGED <<midi_data, midi_file, written, otherThanCodec>>

NextCodec == AddEvent \/ NewTrack \/ Decode \/ Write \/ Reload

SpecCodec == InitCodec /\ [][NextCodec]_vars

----------------------------------------------------------------------------
(* Decoding longer streams of one track: notes, control changes and program
   changes of one channel *)

\* most events of a drawn one-track stream
MaxLoadEvents == 6

LoadDeltas == {0, 1}

LoadEventKinds ==
    {NoteOnEvent(0, 0, 60, 80), NoteOffEvent(0, 0, 60),
     ControlChangeEvent(0, 0, 64, 100), ProgramChangeEvent(0, 0, 1)}

InitLoad ==
    /\ part = "load"
    /\ IdleBut("load")
    /\ \E r \in Resolutions : midi_data = [ticks_per_beat |-> r, tracks |-> << <<>> >>]
    /\ midi_file = Null /\ written = Null /\ reloaded = Null

\* the track holds one more event, delta ticks after the event before it
AddLoadEvent ==
    /\ part = "load" /\ midi_file = Null
    /\ EventCount(midi_data) < MaxLoadEvents
    /\ \E kind \in LoadEventKinds, delta \in LoadDeltas :
          LET track == midi_data.tracks[1]
              tick == IF track = <<>> THEN 0 ELSE track[Len(track)].time
          IN  midi_data' = [midi_data EXCEPT
                               !.tracks[1] = Append(@, [kind EXCEPT !.time = tick + delta])]
    /\ UNCHANGED <<midi_file, written, reloaded, otherThanCodec>>

\* MidiFile(path): the stream is decoded
DecodeLoad ==
    /\ part = "load" /\ midi_file = Null
    /\ midi_file' = process_midi_file(midi_data)
    /\ UNCHANGED <<midi_data, written, reloaded, otherThanCodec>>

NextLoad == AddLoadEvent \/ DecodeLoad

SpecLoad == InitLoad /\ [][NextLoad]_vars

----------------------------------------------------------------------------
(* Decoding streams of two tracks that hold tempo, key signature and time
   signature events on either track *)

\* most events of a drawn two-track stream
MaxMetaEvents == 4

MetaEventKinds ==
    {SetTempo(0, 3), KeySignatureEvent(0, 2), TimeSignatureEvent(0, 3, 4),
     NoteOnEvent(0, 0, 60, 80), NoteOffEvent(0, 0, 60),
     ControlChangeEvent(0, 0, 64, 100), EndOfTrackEvent(0)}

\* the delta times of an event: none, one tick and, for an event of the
\* second track, more ticks than a file may have
MetaDeltas(md) == {0, 1} \cup (IF Len(md.tracks) = 2 THEN {MAX_TICK + 1} ELSE {})

InitMeta ==
    /\ part = "meta"
    /\ IdleBut("meta")
    /\ \E r \in Resolutions : midi_data = [ticks_per_beat |-> r, tracks |-> << <<>> >>]
    /\ midi_file = Null /\ written = Null /\ reloaded = Null

\* the last track of the stream holds one more event, delta ticks after the
\* event before it
AddMetaEvent ==
    /\ part = "meta" /\ midi_file = Null
    /\ EventCount(midi_data) < MaxMetaEvents
    /\ \E kind \in MetaEventKinds, delta \in MetaDeltas(midi_data) :
          LET t == Len(midi_data.tracks)
              track == midi_data.tracks[t]
              tick == IF track = <<>> THEN 0 ELSE track[Len(track)].time
          IN  /\ tick + delta <= MAX_TICK + 1
              /\ midi_data' = [midi_data EXCEPT
                                  !.tracks[t] = Append(@, [kind EXCEPT !.time = tick + delta])]
    /\ UNCHANGED <<midi_file, written, reloaded, otherThanCodec>>

\* the stream holds a second track
SecondTrack ==
    /\ part = "meta" /\ midi_file = Null
    /\ Len(midi_data.tracks) = 1
    /\ midi_data.tracks[1] # <<>>
    /\ midi_data' = [midi_data EXCEPT !.tracks = Append(@, <<>>)]
    /\ UNCHANGED <<midi_file, written, reloaded, otherThanCodec>>

\* MidiFile(path): the stream is decoded
DecodeMeta ==
    /\ part = "meta" /\ midi_file = Null
    /\ midi_file' = process_midi_file(midi_data)
    /\ UNCHANGED <<midi_data, written, reloaded, otherThanCodec>>

NextMeta == AddMetaEvent \/ SecondTrack \/ DecodeMeta

SpecMeta == InitMeta /\ [][NextMeta]_vars

----------------------------------------------------------------------------
(* Writing a MidiFile built without a path, and decoding what was written *)

\* most objects (instruments, notes, control changes, pitch bends, meta
\* events) put into a file before it is written
MaxWriteItems == 4

\* structures.py:461-464  _setup_without_path, after _initialize_fields:
\* one tick lasts 60 / (initial_tempo * resolution) seconds
setup_without_path(res) ==
    [raised |-> "none",
     warned |-> FALSE,
     resolution |-> res,
     tick_scales |-> <<<<0, DefaultTempo>>>>,
     tick_to_time |-> <<0>>,
     key_signature_changes |-> <<>>,
     time_signature_changes |-> <<>>,
     lyrics |-> <<>>,
     text_events |-> <<>>,
     instruments |-> <<>>]

\* containers.py:17-23  Instrument(program, is_drum, name)
Instrument(program, is_drum, name) ==
    [program |-> program, is_drum |-> is_drum, name |-> name,
     notes |-> <<>>, control_changes |-> <<>>, pitch_bends |-> <<>>]

\* the time of one tick of a file built without a path
TickTime == DefaultTempo

\* the [start, end] pairs of the notes put into a file: one, two and half a
\* tick long, and of no length
NoteSpans ==
    {<<0, TickTime>>, <<TickTime, 2 * TickTime>>, <<0, 2 * TickTime>>,
     <<TickTime, TickTime>>, <<TickTime, (3 * TickTime) \div 2>>}

WriteNotes ==
    {[velocity |-> 80, pitch |-> p, start |-> span[1], end |-> span[2]] :
        p \in {60, 62}, span \in NoteSpans}
    \cup {[velocity |-> 0, pitch |-> 60, start |-> 0, end |-> TickTime]}

WriteInstruments ==
    {Instrument(0, FALSE, ""), Instrument(1, FALSE, ""), Instrument(0, TRUE, ""),
     Instrument(0, FALSE, "piano")}

\* the number of objects a file holds
ItemCount(f) ==
    Len(f.key_signature_changes) + Len(f.time_signature_changes) + Len(f.lyrics)
    + Len(f.text_events) + Len(f.instruments)
    + SeqSum([i \in 1..Len(f.instruments) |->
                 Len(f.instruments[i].notes) + Len(f.instruments[i].control_changes)
                 + Len(f.instruments[i].pitch_bends)])

InitWrite ==
    /\ part = "write"
    /\ IdleBut("write")
    /\ midi_data = Null
    /\ \E r \in Resolutions : midi_file = setup_without_path(r)
    /\ written = Null /\ reloaded = Null

Building == part = "write" /\ written = Null /\ ItemCount(midi_file) < MaxWriteItems

\* midi_file.instruments.append(Instrument(program, is_drum, name))
AddInstrument ==
    /\ Building
    /\ \E instrument \in WriteInstruments :
          midi_file' = [midi_file EXCEPT !.instruments = Append(@, instrument)]
    /\ UNCHANGED <<midi_data, written, reloaded, otherThanCodec>>

\* instrument.notes.append(Note(velocity, pitch, start, end)) on the last
\* instrument of the file
AppendNote ==
    /\ Building /\ midi_file.instruments # <<>>
    /\ \E note \in WriteNotes :
          midi_file' = [midi_file EXCEPT
                           !.instruments[Len(midi_file.instruments)].notes =
                               Append(@, note)]
    /\ UNCHANGED <<midi_data, written, reloaded, otherThanCodec>>

\* instrument.control_changes.append(ControlChange(number, value, time)) or
\* instrument.pitch_bends.append(PitchBend(pitch, time)) on the last
\* instrument of the file
AddControl ==
    /\ Building /\ midi_file.instruments # <<>>
    /\ LET n == Len(midi_file.instruments)
       IN  \/ midi_file' = [midi_file EXCEPT
                                !.instruments[n].control_changes =
                                    Append(@, [number |-> 64, value |-> 100,
                                               time |-> TickTime])]
           \/ \E pitch \in {-8192, 8191} :
                 midi_file' = [midi_file EXCEPT
                                  !.instruments[n].pitch_bends =
                                      Append(@, [pitch |-> pitch, time |-> TickTime])]
    /\ UNCHANGED <<midi_data, written, reloaded, otherThanCodec>>

\* a time signature, a key signature, a lyric or a text joins the file
AddMeta ==
    /\ Building
    /\ \/ midi_file' = [midi_file EXCEPT !.time_signature_changes =
                             Append(@, [numerator |-> 3, denominator |-> 4, time |-> 0])]
       \/ midi_file' = [midi_file EXCEPT !.key_signature_changes =
                             Append(@, [key_number |-> 2, time |-> 0])]
       \/ \E time \in {0, TickTime} :
             midi_file' = [midi_file EXCEPT !.lyrics =
                              Append(@, [text |-> "la", time |-> time])]
       \/ \E time \in {0, TickTime} :
             midi_file' = [midi_file EXCEPT !.text_events =
                              Append(@, [text |-> "intro", time |-> time])]
    /\ UNCHANGED <<midi_data, written, reloaded, otherThanCodec>>

\* midi_file.write(filename)
WriteFile ==
    /\ part = "write" /\ written = Null
    /\ written' = write(midi_file)
    /\ UNCHANGED <<midi_data, midi_file, reloaded, otherThanCodec>>

\* MidiFile(filename) of the file written
ReloadFile ==
    /\ part = "write" /\ written # Null /\ reloaded = Null
    /\ reloaded' = process_midi_file(read_stream(written))
    /\ UNCHANGED <<midi_data, midi_file, written, otherThanCodec>>

NextWrite == AddInstrument \/ AppendNote \/ AddControl \/ AddMeta \/ WriteFile \/ ReloadFile

SpecWrite == InitWrite /\ [][NextWrite]_vars

----------------------------------------------------------------------------
(* Claims about merge_files (SpecMerge) *)

----------------------------------------------------------------------------
(* Claims about MidiPiece slicing and trimming (SpecPiece) *)

PieceCalled(op) == piece_call # Null /\ piece_call.op = op

\* C5: for any piece P and any index range with 0 <= a <= b <= P.size, P[a:b]
\* has exactly b - a notes, and with shift_time enabled a non-empty slice's
\* first note starts at 0.
C5_SliceInvariant ==
    (/\ PieceCalled("getitem")
     /\ piece_call.start <= piece_call.finish
     /\ piece_call.finish <= Len(piece.df))
    => /\ Len(piece_call.out.df) = piece_call.finish - piece_call.start
       /\ (piece_call.shift_time /\ piece_call.finish > piece_call.start)
          => piece_call.out.df[1].start = 0

\* C8: trim(start, finish) with start > finish fails with ValueError for every
\* slice_type 'standard', 'by_end' and 'index', and returns no piece.
C8_InvertedRangeValueError ==
    (/\ PieceCalled("trim")
     /\ piece_call.slice_type \in {"standard", "by_end", "index"}
     /\ piece_call.start > piece_call.finish)
    => /\ piece_call.raised = "ValueError"
       /\ piece_call.out = Null

\* the range predicate of a time trim, as the claim words it
InRange(row, start, finish, slice_type) ==
    IF slice_type = "standard"
    THEN start <= row.start /\ row.start <= finish
    ELSE row.start >= start /\ row.end <= finish

NoNoteInRange ==
    \A i \in 1..Len(piece.df) :
        ~InRange(piece.df[i], piece_call.start, piece_call.finish,
                 piece_call.slice_type)

TimeTrimCalled ==
    PieceCalled("trim") /\ piece_call.slice_type \in {"standard", "by_end"}

\* IndexError exactly when no note is in range, otherwise a non-empty piece
TrimRaisesIffNoNote ==
    TimeTrimCalled
    => /\ (piece_call.raised = "IndexError") <=> NoNoteInRange
       /\ piece_call.raised # "IndexError"
          => /\ piece_call.raised = "none"
             /\ Len(piece_call.out.df) >= 1

\* a call leaves the receiver's note table as it was
ReceiverUnchanged == [][piece_call' # piece_call => piece'.df = piece.df]_vars

RowsEndAfterStart == \A i \in 1..Len(piece.df) : piece.df[i].end >= piece.df[i].start

RowsEndingEarly == {i \in 1..Len(piece.df) : piece.df[i].end < piece.df[i].start}

\* C12: a Note with end < start is refused with ValueError and a Note with
\* end == start is accepted: to_midi raises ValueError and returns no File
\* exactly when a row of the piece has end < start, and otherwise returns a
\* File of one instrument with a note for every row, in row order, rows
\* with end == start included.
C12_NoteValidity ==
    PieceCalled("to_midi") =>
        IF RowsEndingEarly # {}
        THEN piece_call.raised = "ValueError" /\ piece_call.out = Null
        ELSE /\ piece_call.raised = "none"
             /\ Len(piece_call.out.instruments) = 1
             /\ LET notes == piece_call.out.instruments[1].notes
                IN  /\ Len(notes) = Len(piece.df)
                    /\ \A i \in 1..Len(notes) :
                          /\ notes[i].start = piece.df[i].start
                          /\ notes[i].end = piece.df[i].end
                          /\ notes[i].pitch = piece.df[i].pitch
                          /\ notes[i].velocity = piece.df[i].velocity

\* to_midi has raised on a piece whose first row ends when it starts and
\* whose second row ends before it starts
C12_Witness ==
    /\ PieceCalled("to_midi")
    /\ Len(piece.df) >= 2
    /\ piece.df[1].end = piece.df[1].start
    /\ piece.df[2].end < piece.df[2].start
    /\ piece_call.raised = "ValueError"

----------------------------------------------------------------------------
(* Claims about MidiPiece addition (SpecAdd) *)

\* a + b has returned a piece
Added == PieceCalled("add") /\ piece_call.raised = "none"

\* the number of notes of a + b is that of a plus that of b
SizesAdd ==
    Len(piece_call.out.df) = Len(piece_call.self_before) + Len(piece_call.other_before)

\* x == y on floats: never true of NaN
FloatEq(x, y) == x # NaN /\ y # NaN /\ x = y

\* every row of both operands ends no earlier than it starts, and both have rows
OperandsOrdered ==
    /\ piece_call.self_before # <<>> /\ piece_call.other_before # <<>>
    /\ \A i \in 1..Len(piece_call.self_before) :
          piece_call.self_before[i].end >= piece_call.self_before[i].start
    /\ \A i \in 1..Len(piece_call.other_before) :
          piece_call.other_before[i].end >= piece_call.other_before[i].start

SameTimes(a, b) ==
    /\ Len(a) = Len(b)
    /\ \A i \in 1..Len(a) :
          /\ FloatEq(a[i].start, b[i].start)
          /\ FloatEq(a[i].end, b[i].end)
          /\ FloatEq(a[i].duration, b[i].duration)

\* C19: after a + b (b may be the object a) the note tables of a and of b hold
\* the start, end and duration values they held before; adding something
\* that is no MidiPiece raises TypeError and leaves the receiver as it was.
C19_AddLeavesOperands ==
    PieceCalled("add") =>
        /\ SameTimes(piece.df, piece_call.self_before)
        /\ SameTimes(piece_call.other_after, piece_call.other_before)
        /\ piece_call.operand = "no piece" <=> piece_call.raised = "TypeError"

\* the rows of the receiver are ordered by start
RowsOrderedByStart ==
    \A i \in 1..(Len(piece.df) - 1) : piece.df[i].start <= piece.df[i + 1].start

\* C21: for a piece whose notes are ordered by start, every note of
\* trim(start, finish, slice_type='by_end') had, in the receiver, a start at or
\* after the start parameter and an end at or before the finish parameter; so
\* with shift_time=False the latest end of the result is at most finish.
C21_ByEndDropsLateNotes ==
    (/\ PieceCalled("trim") /\ piece_call.slice_type = "by_end"
     /\ piece_call.raised = "none"
     /\ RowsOrderedByStart)
    => /\ \A i \in (piece_call.out.source.start + 1)..piece_call.out.source.finish :
             /\ piece.df[i].start >= piece_call.start
             /\ piece.df[i].end <= piece_call.finish
       /\ ~piece_call.shift_time
             => \A i \in 1..Len(piece_call.out.df) :
                   piece_call.out.df[i].end <= piece_call.finish

\* to_midi has returned a File
ToMidiReturned == PieceCalled("to_midi") /\ piece_call.raised = "none"

\* C20 (as stated): for any piece p the File p.to_midi() returns has a
\* duration (get_end_time) equal to p.duration, max(end) - min(start).
C20_ToMidiKeepsDuration ==
    ToMidiReturned =>
        FloatEq(duration(piece_call.out), piece_duration(piece.df))

\* C20 (amended): the File p.to_midi() returns has the duration max(end) of
\* the notes of p, 0 for a piece without notes (no time of the model is
\* negative); it equals p.duration exactly when p has notes and its earliest
\* note starts at 0.
C20_ToMidiDurationIsLastEnd ==
    ToMidiReturned =>
        /\ duration(piece_call.out)
              = SetMax({0} \cup {piece.df[i].end : i \in 1..Len(piece.df)})
        /\ FloatEq(duration(piece_call.out), piece_duration(piece.df))
              <=> (piece.df # <<>>
                   /\ ColMin([i \in 1..Len(piece.df) |-> piece.df[i].start]) = 0)

\* to_midi has returned a File for a piece of two notes, the later one first,
\* that starts after 0
C20_Witness ==
    /\ ToMidiReturned
    /\ Len(piece.df) = 2
    /\ piece.df[1].end > piece.df[2].end
    /\ ColMin([i \in 1..Len(piece.df) |-> piece.df[i].start]) > 0

----------------------------------------------------------------------------
(* Claims about sequences of slices and trims (SpecChain) *)

\* some slices and trims were applied to P0
Chained == PieceCalled("chain") /\ piece_call.steps >= 1

\* the position in P0 of the i-th note of the result
SourceIndex(i) == piece_call.out.source.start - piece.source.start + i

\* the result has source.finish - source.start notes and its i-th note is the
\* note of P0 at SourceIndex(i)
TraceableNotes ==
    /\ piece_call.out.source.finish - piece_call.out.source.start
          = Len(piece_call.out.df)
    /\ \A i \in 1..Len(piece_call.out.df) :
          /\ SourceIndex(i) \in 1..Len(piece.df)
          /\ piece_call.out.df[i].pitch = piece.df[SourceIndex(i)].pitch

\* the start of the i-th note of the result, moved back by the start_time the
\* source records
TracedStart(i) ==
    FloatPlus(piece_call.out.df[i].start,
              TimeMinus(piece_call.out.source.start_time, piece.source.start_time))

----------------------------------------------------------------------------
(* Claims about the sustain projector (SpecSustain) *)

\* the sustain samples are in non-decreasing time order
SustainTimeOrdered ==
    \A i \in 1..Len(sustain) : \A j \in 1..Len(sustain) :
        i < j => sustain[i].time <= sustain[j].time

SameEnds(a, b) ==
    /\ Len(a) = Len(b)
    /\ \A i \in 1..Len(a) : a[i].end = b[i].end /\ a[i].duration = b[i].duration

\* C2: in the two-note scenario (pitch 60, notes 0..1 s and 2..3 s, sustain
\* 100 at 0.5 s and 0 at 2.5 s, threshold 64) apply_sustain moves the first
\* note's end to 2.0 s and leaves the second note's end at 3 s.
C2_ScenarioEnds ==
    (df0 = ScenarioNotes /\ sustain = ScenarioSustain /\ Len(sus_results) >= 1)
        => (sus_results[1][1].end = 4 /\ sus_results[1][2].end = 6)

\* C3 as claimed: a second apply_sustain (same samples, same threshold) gives
\* every note the end and duration of the first, for any sample sequence.
C3_IdempotentAnySamples ==
    Len(sus_results) = 2 => SameEnds(sus_results[1], sus_results[2])

\* C3 amended: the same, for sustain samples in non-decreasing time order.
C3_IdempotentOrderedSamples ==
    (Len(sus_results) = 2 /\ SustainTimeOrdered)
        => SameEnds(sus_results[1], sus_results[2])

\* a second application ran on time-ordered samples whose first application
\* had moved a note end
C3_Witness ==
    /\ Len(sus_results) = 2
    /\ SustainTimeOrdered
    /\ \E i \in 1..Len(df0) : sus_results[1][i].end # df0[i].end

\* C16: for any note table (every note with end >= start) and any sustain
\* samples, apply_sustain leaves the number of notes as it was and, at every
\* position of the table, the start, the pitch and the velocity as they
\* were, and the end is greater than or equal to the end before.
C16_SustainOnlyExtends ==
    Len(sus_results) >= 1 =>
        /\ Len(sus_results[1]) = Len(df0)
        /\ \A i \in 1..Len(df0) :
              /\ sus_results[1][i].end >= df0[i].end
              /\ sus_results[1][i].start = df0[i].start
              /\ sus_results[1][i].pitch = df0[i].pitch
              /\ sus_results[1][i].velocity = df0[i].velocity

\* C17: apply_sustain returns a new note table and leaves the note table
\* handed in as it was, with the same ends and the same columns; so the table
\* a MidiFile hands in (raw_df) keeps the ends as decoded while the table
\* returned (MidiFile.df) holds the sustained ends.
C17_SustainLeavesInputTable ==
    Len(sus_results) = 1 => df = df0

\* the down-runs of the sustain table, as apply_sustain groups them
DownRuns == down_groups(sustain, DefaultSustainThreshold, 1, <<>>)

\* the rows of the same pitch that start after row i of the table handed in
LaterSamePitch(i) ==
    {j \in 1..Len(df0) : df0[j].pitch = df0[i].pitch /\ df0[j].start > df0[i].start}

\* the end of row i of the table handed in fell inside down-run g
EndFellInside(i, g) == affected(df0[i], DownRuns[g][1], DownRuns[g][2])

\* C27: after apply_sustain, every note whose end fell inside a down-run
\* [pedal_down, pedal_up) ends no later than the start of the earliest
\* same-pitch note that starts after it; if no such later note exists, it
\* ends no earlier than that run's pedal_up.
C27_SustainStopsAtRestrike ==
    Len(sus_results) >= 1
    => \A i \in 1..Len(df0) : \A g \in 1..Len(DownRuns) :
          EndFellInside(i, g)
          => IF LaterSamePitch(i) # {}
             THEN sus_results[1][i].end
                  <= SetMin({df0[j].start : j \in LaterSamePitch(i)})
             ELSE sus_results[1][i].end >= DownRuns[g][2]

\* apply_sustain has run on a table with a note held by a pedal and stopped
\* by the next note of its pitch before the pedal is released, and a note
\* without later note of its pitch held to the release
C27_Witness ==
    /\ Len(sus_results) >= 1
    /\ \E i \in 1..Len(df0) : \E g \in 1..Len(DownRuns) :
          /\ EndFellInside(i, g)
          /\ LaterSamePitch(i) # {}
          /\ sus_results[1][i].end > df0[i].end
          /\ sus_results[1][i].end < DownRuns[g][2]
    /\ \E i \in 1..Len(df0) : \E g \in 1..Len(DownRuns) :
          /\ EndFellInside(i, g)
          /\ LaterSamePitch(i) = {}
          /\ sus_results[1][i].end = DownRuns[g][2]

----------------------------------------------------------------------------
(* Claims about the tick/time mapper (SpecMapper) *)

\* the set_tempo events of track 0 at tick 0
TempoEventsAtZero == {i \in 1..Len(tempo_events) : tempo_events[i].time = 0}

\* C4: after decoding and after any tick_to_time calls (regrowing or not),
\* the times of the table never decrease: t1 < t2 implies
\* tick_to_time(t1) <= tick_to_time(t2), for all ticks the table covers.
C4_TickTimeMonotone ==
    \A t1 \in 1..Len(tick_table) : \A t2 \in 1..Len(tick_table) :
        t1 < t2 => tick_table[t1] <= tick_table[t2]

\* a tick_to_time call has regrown a table that holds a tempo change
C4_Witness ==
    /\ map_ret # Null /\ map_ret.op = "tick_to_time" /\ map_ret.raised = "none"
    /\ Len(tick_table) = map_ret.tick + 1
    /\ Len(tick_scales) >= 3
    /\ tick_scales[2][1] < tick_scales[3][1]
    /\ tick_table[Len(tick_table)] > tick_table[tick_scales[3][1] + 1]

\* C7: after decoding there is exactly one tick scale at tick 0, the first;
\* it is the scale of the (last) set_tempo of track 0 at tick 0 when there is
\* one, tempo / (10^6 * resolution) s, and 60 / (120 * resolution) s
\* otherwise; and in the scenario (one set_tempo of 500000 at tick 0,
\* resolution 480) tick_to_time(480) is 0.5 s.
C7_InitialTempo ==
    tick_scales # <<>> =>
        /\ tick_scales[1][1] = 0
        /\ \A k \in 2..Len(tick_scales) : tick_scales[k][1] # 0
        /\ IF TempoEventsAtZero # {}
           THEN tick_scales[1][2] = tempo_events[SetMax(TempoEventsAtZero)].tempo
           ELSE 120 * resolution * tick_scales[1][2] = 60 * 1000000 * resolution
        /\ (/\ part = "mapper_scenario"
            /\ map_ret.op = "tick_to_time" /\ map_ret.tick = 480)
              => 2 * map_ret.value = 1000000 * resolution

\* the scenario's file was decoded and tick_to_time(480) returned
C7_Witness ==
    /\ part = "mapper_scenario"
    /\ tempo_events = <<[time |-> 0, tempo |-> 500000]>> /\ resolution = 480
    /\ map_ret # Null /\ map_ret.op = "tick_to_time" /\ map_ret.tick = 480
    /\ map_ret.raised = "none"

\* the tick-scale list starts at tick 0 and no two consecutive entries carry
\* the same seconds-per-tick value
StartsAtZeroNoRepeats ==
    /\ tick_scales[1][1] = 0
    /\ \A k \in 1..(Len(tick_scales) - 1) : tick_scales[k][2] # tick_scales[k + 1][2]

ConstructCalled == piece_call # Null /\ piece_call.op = "construct"

\* the construction raises ValueError exactly when fewer than two timing
\* columns, or no pitch column, or no velocity column was handed in
RaisesIffColumnsMissing ==
    (piece_call.raised = "ValueError")
       <=> \/ Cardinality(piece_call.columns \cap TimingColumns) < 2
           \/ "pitch" \notin piece_call.columns
           \/ "velocity" \notin piece_call.columns

\* the pieces constructed from a table of exactly two timing columns
DerivedColumn ==
    IF piece_call.raised = "none"
       /\ Cardinality(piece_call.columns \cap TimingColumns) = 2
    THEN TimingColumns \ piece_call.columns
    ELSE {}

\* C13 (as stated): building a MidiPiece fails with ValueError iff fewer than
\* two of the columns start, end, duration are present, or pitch is missing,
\* or velocity is missing; when it succeeds with exactly two timing columns
\* the third is derived so that end = start + duration for every note.
C13_ThirdColumnExact ==
    ConstructCalled =>
        /\ RaisesIffColumnsMissing
        /\ DerivedColumn # {} =>
              \A i \in 1..Len(piece.df) :
                 piece.df[i].end = fadd(piece.df[i].start, piece.df[i].duration)

\* C13 (amended): the same condition of failure; when it succeeds with exactly
\* two timing columns, a derived end is start + duration, a derived start is
\* the float end - duration and a derived duration the float end - start, so
\* that end = start + duration up to the rounding of one float operation:
\* the exact start + duration and end differ by at most half the float
\* spacing at the largest magnitude of the three values.
C13_ThirdColumnRounded ==
    ConstructCalled =>
        /\ RaisesIffColumnsMissing
        /\ \A i \in 1..Len(frame.rows) :
              LET row == piece.df[i]
                  sum == row.start + row.duration
              IN  /\ DerivedColumn = {"end"} => row.end = fadd(row.start, row.duration)
                  /\ DerivedColumn # {} =>
                        2 * Abs(sum - row.end)
                           <= ulp(Max2(Max2(Abs(row.start), Abs(row.end)),
                                       Abs(row.duration)))

\* a piece was constructed from rows of end and duration, and the start derived
\* for one of them does not add up with the duration to the end
C13_Witness ==
    /\ ConstructCalled
    /\ DerivedColumn = {"start"}
    /\ \E i \in 1..Len(piece.df) :
          piece.df[i].end # fadd(piece.df[i].start, piece.df[i].duration)

\* a time_to_tick call has returned
TimeToTickCalled == map_ret # Null /\ map_ret.op = "time_to_tick"

\* the queried time is within the coverage of the table
WithinCoverage == map_ret.time <= tick_table[Len(tick_table)]

\* the returned tick is in the table and no tick of the table is closer to
\* the queried time
NearestTick ==
    /\ map_ret.value \in 0..(Len(tick_table) - 1)
    /\ \A i \in 1..Len(tick_table) :
          Abs(tick_table[map_ret.value + 1] - map_ret.time)
             <= Abs(tick_table[i] - map_ret.time)

\* the 1-based table positions k whose time and the next one have the queried
\* time exactly midway
MidwayAt ==
    {k \in 1..(Len(tick_table) - 1) : 2 * map_ret.time = tick_table[k] + tick_table[k + 1]}

\* beyond coverage the returned tick is the last covered tick plus the
\* remaining time in final ticks, to the nearest whole tick
Extrapolated ==
    LET last == Len(tick_table) - 1
        final_tick_scale == tick_scales[Len(tick_scales)][2]
        remaining == map_ret.time - tick_table[Len(tick_table)]
    IN  /\ map_ret.value >= last
        /\ 2 * Abs((map_ret.value - last) * final_tick_scale - remaining) <= final_tick_scale

\* C15 (as stated): within table coverage time_to_tick returns a tick whose
\* table time is at least as close to the query as that of every other tick,
\* and the earlier tick when the query is exactly midway between two adjacent
\* ticks; beyond coverage it returns the last covered tick plus
\* (time - last covered time) / final seconds-per-tick, rounded.
C15_NearestTickEarlierOnTie ==
    TimeToTickCalled =>
        IF WithinCoverage
        THEN /\ NearestTick
             /\ \A k \in MidwayAt : map_ret.value = k - 1
        ELSE Extrapolated

\* C15 (amended): as above, but a query exactly midway between two adjacent
\* ticks returns the later tick.
C15_NearestTickLaterOnTie ==
    TimeToTickCalled =>
        IF WithinCoverage
        THEN /\ NearestTick
             /\ \A k \in MidwayAt : map_ret.value = k
        ELSE Extrapolated

\* a query exactly midway between two ticks of a table with a tempo change
\* has returned
C15_Witness ==
    /\ TimeToTickCalled /\ WithinCoverage
    /\ MidwayAt # {}
    /\ Len(tick_scales) >= 2

\* the table has an entry for every tick below `ticks` and for no other
TableCovers(ticks) == Len(tick_table) <= ticks

\* a tick_to_time call with a tick at or above the ceiling fails, and a decode
\* of a file whose last tick is at or above the ceiling fails without table
CeilingCallsFail ==
    map_ret # Null
    => /\ (map_ret.op = "tick_to_time" /\ map_ret.tick >= MAX_TICK)
          => map_ret.raised = "IndexError"
       /\ (map_ret.op = "decode" /\ map_ret.tick >= MAX_TICK)
          => (map_ret.raised = "ValueError" /\ tick_table = <<>>)

\* a failing tick_to_time call leaves the table as it was
FailingCallKeepsTable ==
    [][(map_ret' # map_ret /\ map_ret'.op = "tick_to_time"
        /\ map_ret'.raised = "IndexError") => tick_table' = tick_table]_vars

\* C11 (as stated): in every reachable state the tick-to-time table holds no
\* entry for a tick at or above MAX_TICK; a tick_to_time call with
\* tick >= MAX_TICK fails and leaves the table unchanged; a decode whose ticks
\* reach the ceiling fails before the table is built.
C11_NoEntryAtCeiling ==
    /\ [](TableCovers(MAX_TICK))
    /\ [](CeilingCallsFail)
    /\ FailingCallKeepsTable

\* C11 (amended): the table holds no entry for a tick above MAX_TICK (it can
\* hold one for the tick MAX_TICK itself); a tick_to_time call with
\* tick >= MAX_TICK fails and leaves the table unchanged; a decode whose ticks
\* reach the ceiling fails before the table is built.
C11_NoEntryAboveCeiling ==
    /\ [](TableCovers(MAX_TICK + 1))
    /\ [](CeilingCallsFail)
    /\ FailingCallKeepsTable

\* a file whose last tick is MAX_TICK - 1 was decoded, its table reaches the
\* tick MAX_TICK, and tick_to_time(MAX_TICK) has failed
C11_Witness ==
    /\ Len(tick_table) = MAX_TICK + 1
    /\ map_ret # Null /\ map_ret.op = "tick_to_time"
    /\ map_ret.tick = MAX_TICK /\ map_ret.raised = "IndexError"

----------------------------------------------------------------------------
(* Claims about the decoder and the encoder (SpecCodec) *)

\* the longest tick of a file: its largest tick scale
OneTick(f) == SetMax({f.tick_scales[k][2] : k \in 1..Len(f.tick_scales)})

\* C1: for any File decoded from a well-formed event stream, writing it with
\* MidiFile.write and decoding the written stream again yields a File whose
\* duration (get_end_time) equals the original File's duration to within one
\* tick's worth of seconds.
C1_RoundTripDuration ==
    reloaded # Null
    => /\ reloaded.raised = "none"
       /\ Abs(get_end_time(EndTimeView(reloaded)) - get_end_time(EndTimeView(midi_file)))
          <= OneTick(midi_file)

\* the state of the decoding loop just before event i of track t (1-based)
LoadStateBefore(md, t, i, table) ==
    load_track(StartTrack(load_tracks(InitialLoadState, SubSeq(md.tracks, 1, t - 1),
                                      1, table)),
               SubSeq(md.tracks[t], 1, i - 1), 1, t - 1, table)

IsNoteOff(e) == e.type = "note_off" \/ (e.type = "note_on" /\ e.velocity = 0)

\* event i of track t is a note-off for a (channel, pitch) without open note-on
SpuriousNoteOff(md, t, i, table) ==
    /\ IsNoteOff(md.tracks[t][i])
    /\ <<md.tracks[t][i].channel, md.tracks[t][i].note>>
           \notin DOMAIN LoadStateBefore(md, t, i, table).last_note_on

\* the stream without event i of track t
WithoutEvent(md, t, i) ==
    [md EXCEPT !.tracks[t] = SubSeq(@, 1, i - 1) \o SubSeq(@, i + 1, Len(@))]

Decoded == midi_file # Null /\ midi_file.raised = "none"

\* C10: while decoding a track, a note-off (or a note-on of velocity 0) for a
\* (channel, pitch) without open note-on is ignored: the state of the decoding
\* loop (instruments, notes, open-note map) is the same after the event as
\* before it, and the loop ends in the state it ends in when the event is not
\* in the stream.
C10_SpuriousNoteOffIgnored ==
    Decoded
    => \A t \in 1..Len(midi_data.tracks) : \A i \in 1..Len(midi_data.tracks[t]) :
          SpuriousNoteOff(midi_data, t, i, midi_file.tick_to_time)
          => LET table == midi_file.tick_to_time
                 before == LoadStateBefore(midi_data, t, i, table)
             IN  /\ load_event(before, midi_data.tracks[t][i], t - 1, table) = before
                 /\ load_tracks(InitialLoadState, WithoutEvent(midi_data, t, i).tracks,
                                1, table)
                    = load_tracks(InitialLoadState, midi_data.tracks, 1, table)
                 /\ instruments_of(load_tracks(InitialLoadState,
                                       WithoutEvent(midi_data, t, i).tracks, 1, table))
                    = midi_file.instruments

\* a stream decoded in which a spurious note-off comes before a note
C10_Witness ==
    /\ Decoded
    /\ midi_file.instruments # <<>>
    /\ \E t \in 1..Len(midi_data.tracks) : \E i \in 1..Len(midi_data.tracks[t]) :
          /\ i < Len(midi_data.tracks[t])
          /\ SpuriousNoteOff(midi_data, t, i, midi_file.tick_to_time)

\* the position in objects of the instrument of (program, channel, track), or 0
EntryOfObject(st, key) ==
    LET mapped == EntryOf(st.instrument_map, key)
    IN  IF mapped = 0 THEN 0 ELSE st.instrument_map[mapped].obj

\* the notes of the instrument of (program, channel, track) in a loop state
NotesOfInstrument(st, key) ==
    LET mapped == EntryOf(st.instrument_map, key)
    IN  IF mapped = 0 THEN <<>> ELSE st.objects[st.instrument_map[mapped].obj].notes

\* event i of track t is a note-off for a (channel, pitch) with open note-ons
PairingNoteOff(md, t, i, table) ==
    /\ IsNoteOff(md.tracks[t][i])
    /\ <<md.tracks[t][i].channel, md.tracks[t][i].note>>
           \in DOMAIN LoadStateBefore(md, t, i, table).last_note_on

\* C23: on a note-off at tick T for a (channel, pitch) that has open entries,
\* exactly the open entries with start tick different from T each become one
\* Note ending at T, in the instrument of the program current on that channel
\* at the note-off; the entries with start tick T stay open if and only if at
\* least one entry was closed by this event, and otherwise the key's open
\* list is cleared.
C23_NoteOffPairing ==
    Decoded
    => \A t \in 1..Len(midi_data.tracks) : \A i \in 1..Len(midi_data.tracks[t]) :
          PairingNoteOff(midi_data, t, i, midi_file.tick_to_time)
          => LET table == midi_file.tick_to_time
                 event == midi_data.tracks[t][i]
                 T == event.time
                 key == <<event.channel, event.note>>
                 before == LoadStateBefore(midi_data, t, i, table)
                 after == load_event(before, event, t - 1, table)
                 open == before.last_note_on[key]
                 closed == SelectSeq(open, LAMBDA o : o[1] # T)
                 same_tick == SelectSeq(open, LAMBDA o : o[1] = T)
                 owner == <<before.current_instrument[event.channel],
                            event.channel, t - 1>>
                 made == [k \in 1..Len(closed) |->
                             [velocity |-> closed[k][2], pitch |-> event.note,
                              start |-> table[closed[k][1] + 1],
                              end |-> table[T + 1]]]
             IN  /\ NotesOfInstrument(after, owner)
                    = NotesOfInstrument(before, owner) \o made
                 /\ \A o \in 1..Len(after.objects) :
                        o # EntryOfObject(after, owner)
                        => /\ o <= Len(before.objects)
                           /\ after.objects[o].notes = before.objects[o].notes
                 /\ IF closed # <<>> /\ same_tick # <<>>
                    THEN /\ key \in DOMAIN after.last_note_on
                         /\ after.last_note_on[key] = same_tick
                    ELSE key \notin DOMAIN after.last_note_on
                 /\ \A other \in (DOMAIN before.last_note_on) \ {key} :
                        /\ other \in DOMAIN after.last_note_on
                        /\ after.last_note_on[other] = before.last_note_on[other]
                 /\ DOMAIN after.last_note_on \subseteq DOMAIN before.last_note_on

\* a stream decoded in which a note-off at tick T meets an open note-on of an
\* earlier tick and an open note-on of tick T
C23_Witness ==
    /\ Decoded
    /\ \E t \in 1..Len(midi_data.tracks) : \E i \in 1..Len(midi_data.tracks[t]) :
          /\ PairingNoteOff(midi_data, t, i, midi_file.tick_to_time)
          /\ LET event == midi_data.tracks[t][i]
                 open == LoadStateBefore(midi_data, t, i, midi_file.tick_to_time)
                             .last_note_on[<<event.channel, event.note>>]
             IN  /\ \E k \in 1..Len(open) : open[k][1] < event.time
                 /\ \E k \in 1..Len(open) : open[k][1] = event.time

\* the control change a control_change event is decoded to
ControlChangeOf(event, table) ==
    [number |-> event.control, value |-> event.value, time |-> table[event.time + 1]]

\* how many elements of a list equal v
Occurrences(list, v) == Cardinality({i \in 1..Len(list) : list[i] = v})

\* the control_change events of a stream, one track after the other
InputControlChanges(md, table) ==
    LET of_track(t) ==
            LET events == EventsOfType(md.tracks[t], "control_change")
            IN  [i \in 1..Len(events) |-> ControlChangeOf(events[i], table)]
        RECURSIVE from(_)
        from(t) == IF t > Len(md.tracks) THEN <<>> ELSE of_track(t) \o from(t + 1)
    IN  from(1)

\* C24: control changes that arrive on a (channel, track) before any
\* Instrument exists for it are handed to the first Instrument created for
\* that (channel, track) and to no other: after decoding any event stream
\* (program changes between notes included) no control-change event is held
\* by two Instruments, and File.control_changes contains each input
\* control-change event at most once.
C24_StragglerFoldedOnce ==
    (part = "load" /\ Decoded)
    => LET instruments == midi_file.instruments
           input == InputControlChanges(midi_data, midi_file.tick_to_time)
           output == control_changes(midi_file)
       IN  /\ \A i, j \in 1..Len(instruments) :
                  (i # j /\ instruments[i].control_changes # <<>>)
                  => instruments[i].cc_list # instruments[j].cc_list
           /\ \A k \in 1..Len(output) :
                  Occurrences(output, output[k]) <= Occurrences(input, output[k])

----------------------------------------------------------------------------
(* Claims about MidiFile.write (SpecWrite) *)

Written == part = "write" /\ written # Null

\* the tracks of the written stream, in absolute ticks
WrittenTracks == read_stream(written).tracks

\* the place of an event type in the type-priority order (0: not in it)
TypePriority(type) ==
    CASE type = "set_tempo" -> 1
      [] type = "time_signature" -> 2
      [] type = "key_signature" -> 3
      [] type = "lyrics" -> 4
      [] type = "text" -> 5
      [] type = "program_change" -> 6
      [] type = "pitchwheel" -> 7
      [] type = "control_change" -> 8
      [] type = "note_off" -> 9
      [] type = "note_on" -> 10
      [] type = "end_of_track" -> 11
      [] OTHER -> 0

\* the same, a note-on of velocity 0 counting as the note-off it stands for
MeaningPriority(e) ==
    IF e.type = "note_on" /\ e.velocity = 0 THEN TypePriority("note_off")
    ELSE TypePriority(e.type)

\* the pairs of places i < j of a track that hold events of one tick
SameTickPairs(track) ==
    {pair \in (1..Len(track)) \X (1..Len(track)) :
        pair[1] < pair[2] /\ track[pair[1]].time = track[pair[2]].time}

\* C25 as stated: in every track produced by MidiFile.write, any two events
\* at the same absolute tick appear in the type-priority order tempo <
\* time-signature < key-signature < lyrics < text < program-change <
\* pitch-bend < control-change < note-off < note-on < end-of-track, the
\* note-offs being the events that end a note.
C25_SameTickPriorityOrder ==
    Written
    => \A t \in 1..Len(WrittenTracks) : \A pair \in SameTickPairs(WrittenTracks[t]) :
          LET event1 == WrittenTracks[t][pair[1]]
              event2 == WrittenTracks[t][pair[2]]
          IN  (MeaningPriority(event1) # 0 /\ MeaningPriority(event2) # 0)
              => MeaningPriority(event1) <= MeaningPriority(event2)

\* C25, amended: in every track produced by MidiFile.write, any two events at
\* the same absolute tick appear in the priority order of their event types;
\* the note-offs written are note-on events of velocity 0, and the note-on
\* events of one tick are ordered by pitch and then by velocity, so that a
\* note-off comes before the note-ons of its own and of higher pitches only.
C25_SameTickTypeOrder ==
    Written
    => \A t \in 1..Len(WrittenTracks) : \A pair \in SameTickPairs(WrittenTracks[t]) :
          LET event1 == WrittenTracks[t][pair[1]]
              event2 == WrittenTracks[t][pair[2]]
          IN  /\ (TypePriority(event1.type) # 0 /\ TypePriority(event2.type) # 0)
                 => TypePriority(event1.type) <= TypePriority(event2.type)
              /\ (event1.type = "note_on" /\ event2.type = "note_on")
                 => \/ event1.note < event2.note
                    \/ event1.note = event2.note /\ event1.velocity <= event2.velocity

\* a track written in which a control change, a pitch bend or a program
\* change, a note-on and the note-off of a higher pitch share a tick
C25_Witness ==
    /\ Written
    /\ \E t \in 1..Len(WrittenTracks) : \E pair \in SameTickPairs(WrittenTracks[t]) :
          LET track == WrittenTracks[t]
              event1 == track[pair[1]]
              event2 == track[pair[2]]
          IN  /\ event1.type = "note_on" /\ event1.velocity > 0
              /\ event2.type = "note_on" /\ event2.velocity = 0
              /\ event1.note < event2.note
              /\ \E k \in 1..Len(track) :
                    /\ track[k].time = event1.time
                    /\ track[k].type \in {"control_change", "pitchwheel", "program_change"}

\* C26: in every instrument track produced by MidiFile.write, for every tick
\* and pitch, no note-on with velocity > 0 precedes a velocity-0 note-on
\* (note-off) of the same pitch at the same tick, for any set of notes in the
\* instrument.
C26_NoteOffBeforeNoteOn ==
    Written
    => \A t \in 2..Len(WrittenTracks) : \A pair \in SameTickPairs(WrittenTracks[t]) :
          LET event1 == WrittenTracks[t][pair[1]]
              event2 == WrittenTracks[t][pair[2]]
          IN  ~ /\ event1.type = "note_on" /\ event2.type = "note_on"
                /\ event1.note = event2.note
                /\ event1.velocity > 0 /\ event2.velocity = 0

\* an instrument whose second note ends at the tick its first note, of the
\* same pitch, starts at, written
C26_Witness ==
    /\ Written
    /\ \E n \in 1..Len(midi_file.instruments) :
          LET notes == midi_file.instruments[n].notes
          IN  /\ Len(notes) >= 2
              /\ notes[1].pitch = notes[2].pitch
              /\ notes[1].velocity > 0
              /\ time_to_tick(midi_file, notes[1].start)
                     = time_to_tick(midi_file, notes[2].end)
              /\ \E pair \in SameTickPairs(WrittenTracks[n + 1]) :
                    LET event1 == WrittenTracks[n + 1][pair[1]]
                        event2 == WrittenTracks[n + 1][pair[2]]
                    IN  /\ event1.type = "note_on" /\ event1.velocity = 0
                        /\ event2.type = "note_on" /\ event2.velocity > 0
                        /\ event1.note = event2.note

----------------------------------------------------------------------------
(* Claims about tempo, key and time signature events off track 0 (SpecMeta) *)

IsTimingMeta(e) == e.type \in {"set_tempo", "key_signature", "time_signature"}

\* the stream without the tempo, key and time signature events of the tracks
\* other than track 0; every other event keeps its absolute tick
WithoutMetaOffTrackZero(md) ==
    [ticks_per_beat |-> md.ticks_per_beat,
     tracks |-> [t \in 1..Len(md.tracks) |->
                    IF t = 1 THEN md.tracks[t]
                    ELSE SelectSeq(md.tracks[t], LAMBDA e : ~IsTimingMeta(e))]]

\* a stream with such events was decoded, and the stream without them
\* decodes
OffZeroMetaDecoded ==
    /\ part = "meta" /\ midi_file # Null
    /\ MetaOffTrackZero(midi_data)
    /\ process_midi_file(WithoutMetaOffTrackZero(midi_data)).raised = "none"

\* what both claims below say of the tick scales, the signatures, the notes
\* and the control changes
SameButTable(f, plain) ==
    /\ f.tick_scales = plain.tick_scales
    /\ f.key_signature_changes = plain.key_signature_changes
    /\ f.time_signature_changes = plain.time_signature_changes
    /\ f.instruments = plain.instruments

\* C28 as stated: tempo, key-signature and time-signature events on a track
\* other than track 0 leave the tick-scale entries, the tick-to-time table,
\* key_signature_changes and time_signature_changes exactly as they would be
\* without those events; they only raise a non-fatal warning, and decoding
\* of notes and control changes completes.
C28_OffZeroMetaIgnored ==
    OffZeroMetaDecoded
    => LET plain == process_midi_file(WithoutMetaOffTrackZero(midi_data))
       IN  /\ midi_file.raised = "none"
           /\ midi_file.warned
           /\ SameButTable(midi_file, plain)
           /\ midi_file.tick_to_time = plain.tick_to_time

\* C28, amended: such events leave the tick scales, the signatures, the notes,
\* the control changes and the time of every tick as they would be without
\* them, and raise a warning; the table is the same when none of them lies
\* after the last tick of the other events, and otherwise runs on to the last
\* of them, decoding failing with ValueError when that tick exceeds MAX_TICK.
C28_OffZeroMetaOnlyLengthensTable ==
    OffZeroMetaDecoded
    => LET without == WithoutMetaOffTrackZero(midi_data)
           plain == process_midi_file(without)
       IN  IF max_tick_too_large(get_max_tick(midi_data))
           THEN midi_file.raised = "ValueError"
           ELSE /\ midi_file.raised = "none"
                /\ midi_file.warned
                /\ SameButTable(midi_file, plain)
                /\ Len(midi_file.tick_to_time) >= Len(plain.tick_to_time)
                /\ \A k \in 1..Len(plain.tick_to_time) :
                       midi_file.tick_to_time[k] = plain.tick_to_time[k]
                /\ get_max_tick(midi_data) = get_max_tick(without)
                   => midi_file.tick_to_time = plain.tick_to_time

\* a stream decoded with a warning: its second track holds a tempo, key or
\* time signature event before its last event, none of them after the last
\* tick of the other events, and notes were decoded
C28_Witness ==
    /\ OffZeroMetaDecoded
    /\ midi_file.raised = "none" /\ midi_file.warned
    /\ midi_file.instruments # <<>>
    /\ \E i \in 1..Len(midi_data.tracks[2]) :
          /\ IsTimingMeta(midi_data.tracks[2][i])
          /\ i < Len(midi_data.tracks[2])
    /\ get_max_tick(midi_data) = get_max_tick(WithoutMetaOffTrackZero(midi_data))

----------------------------------------------------------------------------
(* Claims about the notes of longer one-track streams (SpecLoad) *)

LoadDecoded == part = "load" /\ Decoded

\* the notes of a file, as <<instrument, position>> pairs
NotePlaces(f) ==
    {place \in (1..Len(f.instruments)) \X (1..MaxLoadEvents) :
        place[2] <= Len(f.instruments[place[1]].notes)}

NoteAt(f, place) == f.instruments[place[1]].notes[place[2]]

\* the note-on events of velocity > 0 of a stream, as <<track, position>> pairs
NoteOnPlaces(md) ==
    {place \in (1..Len(md.tracks)) \X (1..MaxLoadEvents) :
        /\ place[2] <= Len(md.tracks[place[1]])
        /\ md.tracks[place[1]][place[2]].type = "note_on"
        /\ md.tracks[place[1]][place[2]].velocity > 0}

\* C29: for any event stream with non-decreasing absolute ticks per track,
\* every Note the decoder emits has an end tick strictly greater than its
\* start tick (so that Note construction never fails during decoding), and
\* each note-on event with velocity > 0 contributes to at most one Note: the
\* notes of a pitch, velocity and start tick are no more than the note-on
\* events of that pitch, velocity and tick.
C29_NoZeroLengthOrDuplicatedNotes ==
    LoadDecoded
    => /\ \A place \in NotePlaces(midi_file) :
              LET note == NoteAt(midi_file, place)
              IN  /\ note.start < note.end
                  /\ time_to_tick(midi_file, note.start)
                         < time_to_tick(midi_file, note.end)
       /\ \A place \in NotePlaces(midi_file) :
              LET note == NoteAt(midi_file, place)
                  same_notes ==
                      {other \in NotePlaces(midi_file) :
                          /\ NoteAt(midi_file, other).pitch = note.pitch
                          /\ NoteAt(midi_file, other).velocity = note.velocity
                          /\ NoteAt(midi_file, other).start = note.start}
                  same_note_ons ==
                      {on \in NoteOnPlaces(midi_data) :
                          LET event == midi_data.tracks[on[1]][on[2]]
                          IN  /\ event.note = note.pitch
                              /\ event.velocity = note.velocity
                              /\ midi_file.tick_to_time[event.time + 1] = note.start}
              IN  Cardinality(same_notes) <= Cardinality(same_note_ons)

\* a stream decoded to two notes or more in which a note-off met an open
\* note-on of its own tick and one of an earlier tick
C29_Witness ==
    /\ LoadDecoded
    /\ Cardinality(NotePlaces(midi_file)) >= 2
    /\ \E i \in 1..Len(midi_data.tracks[1]) :
          /\ PairingNoteOff(midi_data, 1, i, midi_file.tick_to_time)
          /\ LET event == midi_data.tracks[1][i]
                 open == LoadStateBefore(midi_data, 1, i, midi_file.tick_to_time)
                             .last_note_on[<<event.channel, event.note>>]
             IN  /\ \E k \in 1..Len(open) : open[k][1] < event.time
                 /\ \E k \in 1..Len(open) : open[k][1] = event.time

----------------------------------------------------------------------------
(* Claims about writing a file and decoding it again (SpecWrite) *)

Reloaded == part = "write" /\ reloaded # Null

\* the notes of a file, as <<instrument, position>> pairs
FileNotes(f) ==
    {place \in (1..Len(f.instruments)) \X (1..MaxWriteItems) :
        place[2] <= Len(f.instruments[place[1]].notes)}

\* what the round trip keeps of a note: pitch, velocity, start tick, end
\* tick, and the program and drum flag of its instrument
NoteInTicks(f, place) ==
    LET note == f.instruments[place[1]].notes[place[2]]
    IN  <<note.pitch, note.velocity, time_to_tick(f, note.start),
          time_to_tick(f, note.end), f.instruments[place[1]].program,
          f.instruments[place[1]].is_drum>>

\* how many notes of a file are kept as x
NoteCount(f, x) == Cardinality({place \in FileNotes(f) : NoteInTicks(f, place) = x})

\* two notes of one instrument and one pitch overlap in ticks
OverlapInTicks(f, a, b) ==
    /\ a # b /\ a[1] = b[1]
    /\ NoteInTicks(f, a)[1] = NoteInTicks(f, b)[1]
    /\ NoteInTicks(f, a)[3] < NoteInTicks(f, b)[4]
    /\ NoteInTicks(f, b)[3] < NoteInTicks(f, a)[4]

\* every note has velocity >= 1 and time_to_tick(start) < time_to_tick(end),
\* and no two notes of the same pitch in the same instrument overlap in ticks
RoundTripNotes(f) ==
    /\ \A place \in FileNotes(f) :
          /\ NoteInTicks(f, place)[2] >= 1
          /\ NoteInTicks(f, place)[3] < NoteInTicks(f, place)[4]
    /\ \A a \in FileNotes(f) : \A b \in FileNotes(f) : ~OverlapInTicks(f, a, b)

\* C30: for a File whose notes all have velocity >= 1 and
\* time_to_tick(start) < time_to_tick(end), and in which no two notes of the
\* same pitch in the same Instrument overlap in ticks, decoding the stream
\* produced by MidiFile.write yields exactly the same multiset of notes
\* (pitch, velocity, start tick, end tick), each in an Instrument with the
\* original program and drum flag.
C30_NoteRoundTrip ==
    (Reloaded /\ RoundTripNotes(midi_file))
    => /\ reloaded.raised = "none"
       /\ \A place \in FileNotes(midi_file) :
              NoteCount(reloaded, NoteInTicks(midi_file, place))
                 = NoteCount(midi_file, NoteInTicks(midi_file, place))
       /\ \A place \in FileNotes(reloaded) :
              NoteCount(midi_file, NoteInTicks(reloaded, place))
                 = NoteCount(reloaded, NoteInTicks(reloaded, place))

\* a file written and decoded again that holds a drum instrument and two
\* notes of one pitch, put in the later one first, the one ending at the tick
\* the other starts at
C30_Witness ==
    /\ Reloaded /\ RoundTripNotes(midi_file)
    /\ \E n \in 1..Len(midi_file.instruments) :
          LET notes == midi_file.instruments[n].notes
          IN  /\ midi_file.instruments[n].is_drum
              /\ Len(notes) = 2
              /\ notes[1].pitch = notes[2].pitch
              /\ time_to_tick(midi_file, notes[1].start)
                     = time_to_tick(midi_file, notes[2].end)
    /\ Cardinality(FileNotes(reloaded)) = 2

====
